---- MODULE Spec2Model ----
(***************************************************************************)
(* Ladybug chess engine: board, FEN codec, pawn move generation and draw   *)
(* detection.  Strings are sequences of one-character strings, a bitboard  *)
(* is the set of its squares, a u32 is a pair of 16-bit limbs <<hi, lo>>   *)
(* so that values up to 2^32 - 1 and their overflow are representable, and *)
(* a Zobrist hash is the set of keys whose XOR it is (XOR of independent   *)
(* keys is the symmetric difference of the key sets).                      *)
(***************************************************************************)
EXTENDS Integers, Sequences, FiniteSets, TLC

VARIABLES
    input,          \* how the FEN text was put together (the case it is an instance of)
    fen,            \* the FEN text handed to Board::from_fen
    parsed,         \* Result<Board, String> of from_fen
    board,          \* the current Board
    board_history,  \* ArrayVec<u64, 1000> of position hashes
    move_list,      \* the MoveList of the last generate_pawn_moves call
    played,         \* the plies made since from_fen, oldest first
    last,           \* the last to_fen / is_draw call and its result
    pc,             \* position of the driver
    search,         \* the Search struct of the search thread
    channel         \* the command channel and the message channel of the search thread

vars == <<input, fen, parsed, board, board_history, move_list, played, last, pc,
          search, channel>>

(***************************************************************************)
(* Primitives: color, piece, file, rank, square.                           *)
(***************************************************************************)
White == "White"
Black == "Black"
Colors == <<White, Black>>
ColorSet == {White, Black}

Pawn == "Pawn"
Knight == "Knight"
Bishop == "Bishop"
Rook == "Rook"
Queen == "Queen"
King == "King"
Pieces == <<Pawn, Knight, Bishop, Rook, Queen, King>>
PieceSet == {Pawn, Knight, Bishop, Rook, Queen, King}

None == "None"
\* Option<Square>::None
NoSquare == -1
\* Option<(Piece, Color)>::None
NoPiece == [piece |-> None, color |-> None]

NUM_FILES == 8
NUM_RANKS == 8
Squares == 0 .. 63

Other(color) == IF color = White THEN Black ELSE White

PieceIndex(piece) == CHOOSE i \in 1 .. 6 : Pieces[i] = piece
PieceFromIndex(i) == Pieces[i + 1]

FileFromIndex(index) == index % 8
RankFromIndex(index) == index % 8

FileRight(file) == FileFromIndex(file + 1)
FileLeft(file) == IF file = 0 THEN 7 ELSE FileFromIndex(file - 1)

FromFileRank(file, rank) == rank * 8 + file
GetFile(sq) == sq % 8
GetRank(sq) == sq \div 8

FileChars == <<"a", "b", "c", "d", "e", "f", "g", "h">>
RankChars == <<"1", "2", "3", "4", "5", "6", "7", "8">>

(***************************************************************************)
(* u32 arithmetic on <<hi, lo>> limbs, and the decimal codec of            *)
(* str::parse::<u32> and format!("{}").                                    *)
(***************************************************************************)
Limb == 65536
U32(n) == <<n \div Limb, n % Limb>>
U32Max == <<Limb - 1, Limb - 1>>
U32Zero == <<0, 0>>
U32Lt(a, b) == a[1] < b[1] \/ (a[1] = b[1] /\ a[2] < b[2])
U32Ge(a, b) == ~U32Lt(a, b)
\* a + 1 without the overflow case
U32Succ(a) == IF a[2] = Limb - 1 THEN <<a[1] + 1, 0>> ELSE <<a[1], a[2] + 1>>

DigitChars == <<"0", "1", "2", "3", "4", "5", "6", "7", "8", "9">>
DigitSet == {DigitChars[i] : i \in 1 .. 10}
DigitVal(c) == (CHOOSE i \in 1 .. 10 : DigitChars[i] = c) - 1

Err == [ok |-> FALSE, val |-> "Invalid FEN"]
Ok(v) == [ok |-> TRUE, val |-> v]

\* acc * 10 + d, an error when the result does not fit in 32 bits
U32MulAdd(acc, d) ==
    LET lo == acc[2] * 10 + d
        hi == acc[1] * 10 + (lo \div Limb)
    IN  IF hi >= Limb THEN Err ELSE Ok(<<hi, lo % Limb>>)

RECURSIVE U32ParseDigits(_, _, _)
U32ParseDigits(s, i, acc) ==
    IF i > Len(s) THEN Ok(acc)
    ELSE IF s[i] \notin DigitSet THEN Err
    ELSE LET next == U32MulAdd(acc, DigitVal(s[i]))
         IN  IF ~next.ok THEN Err ELSE U32ParseDigits(s, i + 1, next.val)

\* str::parse::<u32>: an optional "+", then one or more decimal digits, no overflow
U32Parse(s) ==
    IF Len(s) = 0 THEN Err
    ELSE IF s[1] = "+"
         THEN IF Len(s) = 1 THEN Err ELSE U32ParseDigits(s, 2, U32Zero)
         ELSE U32ParseDigits(s, 1, U32Zero)

\* quotient and remainder of a u32 by 10
U32DivMod10(a) ==
    LET mid == (a[1] % 10) * Limb + a[2]
    IN  [q |-> <<a[1] \div 10, mid \div 10>>, r |-> mid % 10]

RECURSIVE U32FormatRec(_)
U32FormatRec(a) ==
    IF a = U32Zero THEN <<>>
    ELSE LET qr == U32DivMod10(a)
         IN  Append(U32FormatRec(qr.q), DigitChars[qr.r + 1])

\* format!("{}", n) of a u32
U32Format(a) == IF a = U32Zero THEN <<"0">> ELSE U32FormatRec(a)

(***************************************************************************)
(* Bitboards, position queries and the Zobrist hash.                       *)
(***************************************************************************)
NoRights == "NoRights"
KingSide == "KingSide"
QueenSide == "QueenSide"
Both == "Both"

EmptyPieces == [c \in ColorSet |-> [p \in PieceSet |-> {}]]

SetBit(pieces, color, piece, sq) ==
    [pieces EXCEPT ![color][piece] = @ \cup {sq}]

GetOccupancy(position, color) ==
    UNION {position.pieces[color][p] : p \in PieceSet}

GetOccupancies(position) ==
    GetOccupancy(position, White) \cup GetOccupancy(position, Black)

\* Option<(Piece, Color)> of the piece standing on sq
GetPiece(position, sq) ==
    IF \E c \in ColorSet, p \in PieceSet : sq \in position.pieces[c][p]
    THEN LET ci == CHOOSE i \in 1 .. 2 :
                     /\ \E p \in PieceSet : sq \in position.pieces[Colors[i]][p]
                     /\ \A j \in 1 .. (i - 1) :
                          \A p \in PieceSet : sq \notin position.pieces[Colors[j]][p]
             pi == CHOOSE i \in 1 .. 6 :
                     /\ sq \in position.pieces[Colors[ci]][Pieces[i]]
                     /\ \A j \in 1 .. (i - 1) : sq \notin position.pieces[Colors[ci]][Pieces[j]]
         IN  [piece |-> Pieces[pi], color |-> Colors[ci]]
    ELSE NoPiece

Key(k, c, p, s) == [k |-> k, c |-> c, p |-> p, s |-> s]
PieceKey(color, piece, sq) == Key("piece", color, piece, sq)
SideKey == Key("side", "-", "-", 0)
CastlingKey(color, rights) == Key("castling", color, rights, 0)
EnPassantKey(sq) == Key("en_passant", "-", "-", GetFile(sq))

Xor(h, keys) == (h \ keys) \cup (keys \ h)

\* the hash computed from scratch
GetHash(pieces, castling_rights, en_passant, color_to_move) ==
    {PieceKey(c, p, sq) : <<c, p, sq>> \in
        {t \in ColorSet \X PieceSet \X Squares : t[3] \in pieces[t[1]][t[2]]}}
    \cup (IF color_to_move = Black THEN {SideKey} ELSE {})
    \cup {CastlingKey(c, castling_rights[c]) : c \in ColorSet}
    \cup (IF en_passant = NoSquare THEN {} ELSE {EnPassantKey(en_passant)})

PositionNew(pieces, castling_rights, en_passant, color_to_move) ==
    [pieces |-> pieces,
     castling_rights |-> castling_rights,
     en_passant |-> en_passant,
     color_to_move |-> color_to_move,
     hash |-> GetHash(pieces, castling_rights, en_passant, color_to_move)]

(***************************************************************************)
(* FEN codec (board/fen.rs).                                               *)
(***************************************************************************)
Whitespace == {" ", "\t"}

RECURSIVE SplitWhitespaceRec(_, _, _, _)
SplitWhitespaceRec(s, i, cur, acc) ==
    IF i > Len(s) THEN (IF cur = <<>> THEN acc ELSE Append(acc, cur))
    ELSE IF s[i] \in Whitespace
         THEN SplitWhitespaceRec(s, i + 1, <<>>, IF cur = <<>> THEN acc ELSE Append(acc, cur))
         ELSE SplitWhitespaceRec(s, i + 1, Append(cur, s[i]), acc)

\* str::split_whitespace: the non-empty runs of non-whitespace characters
SplitWhitespace(s) == SplitWhitespaceRec(s, 1, <<>>, <<>>)

RECURSIVE SplitRec(_, _, _, _, _)
SplitRec(s, sep, i, cur, acc) ==
    IF i > Len(s) THEN Append(acc, cur)
    ELSE IF s[i] = sep
         THEN SplitRec(s, sep, i + 1, <<>>, Append(acc, cur))
         ELSE SplitRec(s, sep, i + 1, Append(cur, s[i]), acc)

\* str::split(sep): every part between separators, empty parts included
Split(s, sep) == SplitRec(s, sep, 1, <<>>, <<>>)

\* the defaults pushed in the wrong order
split_fen_swapped(s) ==
    LET fen_parts == SplitWhitespace(s)
    IN  IF Len(fen_parts) = 4 THEN Ok(fen_parts \o << <<"1">>, <<"0">> >>)
        ELSE IF Len(fen_parts) = 5 THEN Ok(Append(fen_parts, <<"1">>))
        ELSE IF Len(fen_parts) = 6 THEN Ok(fen_parts)
        ELSE Err

split_fen(s) ==
    LET fen_parts == SplitWhitespace(s)
    IN  IF Len(fen_parts) = 4 THEN Ok(fen_parts \o << <<"0">>, <<"1">> >>)
        ELSE IF Len(fen_parts) = 5 THEN Ok(Append(fen_parts, <<"1">>))
        ELSE IF Len(fen_parts) = 6 THEN Ok(fen_parts)
        ELSE Err

WhiteLetters == <<"P", "N", "B", "R", "Q", "K">>
BlackLetters == <<"p", "n", "b", "r", "q", "k">>
LetterSet == {WhiteLetters[i] : i \in 1 .. 6} \cup {BlackLetters[i] : i \in 1 .. 6}
LetterColor(c) == IF \E i \in 1 .. 6 : WhiteLetters[i] = c THEN White ELSE Black
LetterPiece(c) == Pieces[CHOOSE i \in 1 .. 6 : WhiteLetters[i] = c \/ BlackLetters[i] = c]
SkipDigits == {"2", "3", "4", "5", "6", "7", "8"}

\* the body of the loop over the characters of one rank row
RECURSIVE parse_row(_, _, _, _, _)
parse_row(piece_str, i, file_index, rank_index, pieces) ==
    IF i > Len(piece_str) THEN Ok(pieces)
    ELSE LET char == piece_str[i]
             sq == FromFileRank(FileFromIndex(file_index), RankFromIndex(7 - rank_index))
         IN  IF char \in LetterSet
             THEN IF file_index > 7 THEN Err
                  ELSE parse_row(piece_str, i + 1, file_index + 1, rank_index,
                                 SetBit(pieces, LetterColor(char), LetterPiece(char), sq))
             ELSE IF char = "1"
             THEN IF file_index > 7 THEN Err
                  ELSE parse_row(piece_str, i + 1, file_index + 1, rank_index, pieces)
             ELSE IF char \in SkipDigits
             THEN LET skipped == file_index + DigitVal(char) - 1
                  IN  IF skipped > 7 THEN Err
                      ELSE parse_row(piece_str, i + 1, skipped + 1, rank_index, pieces)
             ELSE Err

RECURSIVE parse_rows(_, _, _)
parse_rows(piece_parts, rank_index, pieces) ==
    IF rank_index >= Len(piece_parts) THEN Ok(pieces)
    ELSE LET row == parse_row(piece_parts[rank_index + 1], 1, 0, rank_index, pieces)
         IN  IF row.ok THEN parse_rows(piece_parts, rank_index + 1, row.val) ELSE Err

parse_pieces(piece_fen) ==
    LET piece_parts == Split(piece_fen, "/")
    IN  IF Len(piece_parts) # 8 THEN Err ELSE parse_rows(piece_parts, 0, EmptyPieces)

parse_color_to_move(color_fen) ==
    IF color_fen = <<"w">> THEN Ok(White)
    ELSE IF color_fen = <<"b">> THEN Ok(Black)
    ELSE Err

CastlingSpellings ==
    { [s |-> <<"-">>,                w |-> NoRights,  b |-> NoRights],
      [s |-> <<"q">>,                w |-> NoRights,  b |-> QueenSide],
      [s |-> <<"k">>,                w |-> NoRights,  b |-> KingSide],
      [s |-> <<"k", "q">>,           w |-> NoRights,  b |-> Both],
      [s |-> <<"Q">>,                w |-> QueenSide, b |-> NoRights],
      [s |-> <<"Q", "q">>,           w |-> QueenSide, b |-> QueenSide],
      [s |-> <<"Q", "k">>,           w |-> QueenSide, b |-> KingSide],
      [s |-> <<"Q", "k", "q">>,      w |-> QueenSide, b |-> Both],
      [s |-> <<"K">>,                w |-> KingSide,  b |-> NoRights],
      [s |-> <<"K", "q">>,           w |-> KingSide,  b |-> QueenSide],
      [s |-> <<"K", "k">>,           w |-> KingSide,  b |-> KingSide],
      [s |-> <<"K", "k", "q">>,      w |-> KingSide,  b |-> Both],
      [s |-> <<"K", "Q">>,           w |-> Both,      b |-> NoRights],
      [s |-> <<"K", "Q", "q">>,      w |-> Both,      b |-> QueenSide],
      [s |-> <<"K", "Q", "k">>,      w |-> Both,      b |-> KingSide],
      [s |-> <<"K", "Q", "k", "q">>, w |-> Both,      b |-> Both] }

\* the castling field read as a set of letters, in any order
parse_castling_rights_unordered(castling_rights_fen) ==
    LET letters == {castling_rights_fen[i] : i \in 1 .. Len(castling_rights_fen)}
        Matches(e) == {e.s[i] : i \in 1 .. Len(e.s)} = letters
    IN  IF \E e \in CastlingSpellings : Matches(e)
        THEN LET e == CHOOSE e \in CastlingSpellings : Matches(e)
             IN  Ok([c \in ColorSet |-> IF c = White THEN e.w ELSE e.b])
        ELSE Err

parse_castling_rights(castling_rights_fen) ==
    IF \E e \in CastlingSpellings : e.s = castling_rights_fen
    THEN LET e == CHOOSE e \in CastlingSpellings : e.s = castling_rights_fen
         IN  Ok([c \in ColorSet |-> IF c = White THEN e.w ELSE e.b])
    ELSE Err

\* Square::from_string: a file letter a..h followed by a rank digit 1..8
SquareFromString(s) ==
    IF /\ Len(s) = 2
       /\ \E f \in 1 .. 8 : FileChars[f] = s[1]
       /\ \E r \in 1 .. 8 : RankChars[r] = s[2]
    THEN Ok(FromFileRank((CHOOSE f \in 1 .. 8 : FileChars[f] = s[1]) - 1,
                         (CHOOSE r \in 1 .. 8 : RankChars[r] = s[2]) - 1))
    ELSE Err

\* Display for Square
SquareToString(sq) == <<FileChars[GetFile(sq) + 1], RankChars[GetRank(sq) + 1]>>

parse_en_passant(en_passant_fen) ==
    IF en_passant_fen = <<"-">> THEN Ok(NoSquare) ELSE SquareFromString(en_passant_fen)

parse_halfmove_clock(halfmove_clock_fen) == U32Parse(halfmove_clock_fen)

parse_fullmove_counter(fullmove_counter_fen) ==
    LET fullmove_counter == U32Parse(fullmove_counter_fen)
    IN  IF fullmove_counter.ok /\ fullmove_counter.val = U32Zero THEN Err
        ELSE fullmove_counter

\* the outcome of unwrap() on an absent element
Panic == [ok |-> FALSE, val |-> "panic"]

\* fen_parts.first(), fen_parts.get(index) and fen_parts.last() are present
HasPart(fen_parts, index) == index < Len(fen_parts)

parse_fen(s) ==
    LET fen_parts == split_fen(s)
    IN  IF ~fen_parts.ok THEN Err
        ELSE
        LET parts == fen_parts.val
            pieces == parse_pieces(parts[1])
            color_to_move == parse_color_to_move(parts[2])
            castling_rights == parse_castling_rights(parts[3])
            en_passant == parse_en_passant(parts[4])
            halfmove_clock == parse_halfmove_clock(parts[5])
            fullmove_counter == parse_fullmove_counter(parts[Len(parts)])
        IN  IF ~HasPart(parts, 0) THEN Panic
            ELSE IF ~pieces.ok THEN Err
            ELSE IF ~HasPart(parts, 1) THEN Panic
            ELSE IF ~color_to_move.ok THEN Err
            ELSE IF ~HasPart(parts, 2) THEN Panic
            ELSE IF ~castling_rights.ok THEN Err
            ELSE IF ~HasPart(parts, 3) THEN Panic
            ELSE IF ~en_passant.ok THEN Err
            ELSE IF ~HasPart(parts, 4) THEN Panic
            ELSE IF ~halfmove_clock.ok THEN Err
            ELSE IF ~fullmove_counter.ok THEN Err
            ELSE Ok([position |-> PositionNew(pieces.val, castling_rights.val,
                                              en_passant.val, color_to_move.val),
                     fullmove_counter |-> fullmove_counter.val,
                     halfmove_clock |-> halfmove_clock.val])

from_fen(s) == parse_fen(s)

PieceToChar(piece, color) ==
    IF color = White THEN WhiteLetters[PieceIndex(piece)] ELSE BlackLetters[PieceIndex(piece)]

\* the characters of one rank row: files a..h, empty runs as a digit
RECURSIVE to_fen_row(_, _, _, _)
to_fen_row(position, rank, file, files_to_skip) ==
    IF file >= NUM_FILES
    THEN (IF files_to_skip > 0 THEN <<DigitChars[files_to_skip + 1]>> ELSE <<>>)
    ELSE LET piece == GetPiece(position, FromFileRank(FileFromIndex(file), RankFromIndex(rank)))
         IN  IF piece = NoPiece
             THEN to_fen_row(position, rank, file + 1, files_to_skip + 1)
             ELSE (IF files_to_skip > 0 THEN <<DigitChars[files_to_skip + 1]>> ELSE <<>>)
                  \o <<PieceToChar(piece.piece, piece.color)>>
                  \o to_fen_row(position, rank, file + 1, 0)

RECURSIVE to_fen_rows(_, _)
to_fen_rows(position, rank) ==
    to_fen_row(position, rank, 0, 0)
    \o (IF rank # 0 THEN <<"/">> \o to_fen_rows(position, rank - 1) ELSE <<>>)

CastlingStr(rights, color) ==
    LET upper == IF rights = KingSide THEN <<"K">>
                 ELSE IF rights = QueenSide THEN <<"Q">>
                 ELSE IF rights = Both THEN <<"K", "Q">>
                 ELSE <<>>
    IN  IF color = Black
        THEN [i \in 1 .. Len(upper) |-> IF upper[i] = "K" THEN "k" ELSE "q"]
        ELSE upper

to_fen(b) ==
    LET castling_rights_str_both ==
            CastlingStr(b.position.castling_rights[White], White)
            \o CastlingStr(b.position.castling_rights[Black], Black)
    IN  to_fen_rows(b.position, NUM_RANKS - 1)
        \o (IF b.position.color_to_move = White THEN <<" ", "w">> ELSE <<" ", "b">>)
        \o (IF castling_rights_str_both = <<>> THEN <<" ", "-">>
            ELSE <<" ">> \o castling_rights_str_both)
        \o (IF b.position.en_passant = NoSquare THEN <<" ", "-">>
            ELSE <<" ">> \o SquareToString(b.position.en_passant))
        \o <<" ">> \o U32Format(b.halfmove_clock)
        \o <<" ">> \o U32Format(b.fullmove_counter)

(***************************************************************************)
(* Attack lookup, legality and Position::make_move.                        *)
(***************************************************************************)
OnBoard(file, rank) == file \in 0 .. 7 /\ rank \in 0 .. 7

Shift(sq, df, dr) == FromFileRank(GetFile(sq) + df, GetRank(sq) + dr)

Targets(sq, deltas) ==
    {Shift(sq, d[1], d[2]) : d \in {e \in deltas : OnBoard(GetFile(sq) + e[1], GetRank(sq) + e[2])}}

get_pawn_attacks(sq, color) ==
    IF color = White THEN Targets(sq, {<<-1, 1>>, <<1, 1>>})
    ELSE Targets(sq, {<<-1, -1>>, <<1, -1>>})

get_knight_attacks(sq) ==
    Targets(sq, {<<1, 2>>, <<2, 1>>, <<2, -1>>, <<1, -2>>,
                 <<-1, -2>>, <<-2, -1>>, <<-2, 1>>, <<-1, 2>>})

get_king_attacks(sq) ==
    Targets(sq, {<<1, 0>>, <<1, 1>>, <<0, 1>>, <<-1, 1>>,
                 <<-1, 0>>, <<-1, -1>>, <<0, -1>>, <<1, -1>>})

\* the squares of one ray from sq, up to and including the first occupied one
RECURSIVE Ray(_, _, _, _)
Ray(sq, df, dr, occupancies) ==
    IF ~OnBoard(GetFile(sq) + df, GetRank(sq) + dr) THEN {}
    ELSE LET next == Shift(sq, df, dr)
         IN  IF next \in occupancies THEN {next}
             ELSE {next} \cup Ray(next, df, dr, occupancies)

get_bishop_attacks(sq, occupancies) ==
    Ray(sq, 1, 1, occupancies) \cup Ray(sq, 1, -1, occupancies)
    \cup Ray(sq, -1, 1, occupancies) \cup Ray(sq, -1, -1, occupancies)

get_rook_attacks(sq, occupancies) ==
    Ray(sq, 1, 0, occupancies) \cup Ray(sq, -1, 0, occupancies)
    \cup Ray(sq, 0, 1, occupancies) \cup Ray(sq, 0, -1, occupancies)

is_square_attacked_by(position, sq, color) ==
    LET occupancies == GetOccupancies(position)
        theirs == position.pieces[color]
    IN  \/ get_pawn_attacks(sq, Other(color)) \cap theirs[Pawn] # {}
        \/ get_knight_attacks(sq) \cap theirs[Knight] # {}
        \/ get_king_attacks(sq) \cap theirs[King] # {}
        \/ get_bishop_attacks(sq, occupancies) \cap (theirs[Bishop] \cup theirs[Queen]) # {}
        \/ get_rook_attacks(sq, occupancies) \cap (theirs[Rook] \cup theirs[Queen]) # {}

\* true iff the side that just moved is not in check
is_legal(position) ==
    \A k \in position.pieces[Other(position.color_to_move)][King] :
        ~is_square_attacked_by(position, k, position.color_to_move)

promotion_rank(color) == IF color = White THEN 7 ELSE 0
pawn_rank(color) == IF color = White THEN 1 ELSE 6
double_pawn_push_target_rank(color) == IF color = White THEN 3 ELSE 4

RankUp(rank) == RankFromIndex(rank + 1)
RankDown(rank) == IF rank = 0 THEN 7 ELSE RankFromIndex(rank - 1)
SquareUp(sq) == FromFileRank(GetFile(sq), RankUp(GetRank(sq)))
SquareDown(sq) == FromFileRank(GetFile(sq), RankDown(GetRank(sq)))

Ply(source, target, piece, captured_piece, promotion_piece) ==
    [source |-> source, target |-> target, piece |-> piece,
     captured_piece |-> captured_piece, promotion_piece |-> promotion_piece]

Abs(n) == IF n < 0 THEN -n ELSE n

IsEnPassant(position, ply) ==
    ply.piece = Pawn /\ ply.captured_piece # None /\ ply.target = position.en_passant

IsDoublePush(ply) ==
    ply.piece = Pawn /\ Abs(GetRank(ply.target) - GetRank(ply.source)) = 2

IsCastling(ply) ==
    ply.piece = King /\ Abs(GetFile(ply.target) - GetFile(ply.source)) = 2

\* the rook's starting squares: <<queen side, king side>>
RookHome(color) == IF color = White THEN <<0, 7>> ELSE <<56, 63>>

WithoutSide(rights, side) ==
    IF rights = Both THEN (IF side = KingSide THEN QueenSide ELSE KingSide)
    ELSE IF rights = side THEN NoRights
    ELSE rights

\* the rights of color after a piece left or was captured on sq
RevokeOn(rights, color, sq) ==
    IF sq = RookHome(color)[1] THEN WithoutSide(rights, QueenSide)
    ELSE IF sq = RookHome(color)[2] THEN WithoutSide(rights, KingSide)
    ELSE rights

PositionMakeMove(position, ply) ==
    LET us == position.color_to_move
        them == Other(us)
        capture_sq == IF IsEnPassant(position, ply)
                      THEN FromFileRank(GetFile(ply.target), GetRank(ply.source))
                      ELSE ply.target
        placed == IF ply.promotion_piece # None THEN ply.promotion_piece ELSE ply.piece
        rook_from == IF GetFile(ply.target) > GetFile(ply.source)
                     THEN RookHome(us)[2] ELSE RookHome(us)[1]
        rook_to == IF GetFile(ply.target) > GetFile(ply.source)
                   THEN ply.target - 1 ELSE ply.target + 1
        p1 == IF ply.captured_piece # None
              THEN [position.pieces EXCEPT ![them][ply.captured_piece] = @ \ {capture_sq}]
              ELSE position.pieces
        p2 == [p1 EXCEPT ![us][ply.piece] = @ \ {ply.source}]
        p3 == [p2 EXCEPT ![us][placed] = @ \cup {ply.target}]
        p4 == IF IsCastling(ply)
              THEN [p3 EXCEPT ![us][Rook] = (@ \ {rook_from}) \cup {rook_to}]
              ELSE p3
        own == IF ply.piece = King THEN NoRights
               ELSE IF ply.piece = Rook
               THEN RevokeOn(position.castling_rights[us], us, ply.source)
               ELSE position.castling_rights[us]
        opp == IF ply.captured_piece = Rook
               THEN RevokeOn(position.castling_rights[them], them, ply.target)
               ELSE position.castling_rights[them]
        rights == [c \in ColorSet |-> IF c = us THEN own ELSE opp]
        en_passant == IF IsDoublePush(ply)
                      THEN FromFileRank(GetFile(ply.source),
                                        (GetRank(ply.source) + GetRank(ply.target)) \div 2)
                      ELSE NoSquare
        h1 == IF ply.captured_piece # None
              THEN Xor(position.hash, {PieceKey(them, ply.captured_piece, capture_sq)})
              ELSE position.hash
        h2 == Xor(h1, {PieceKey(us, ply.piece, ply.source)})
        h3 == Xor(h2, {PieceKey(us, placed, ply.target)})
        h4 == IF IsCastling(ply)
              THEN Xor(Xor(h3, {PieceKey(us, Rook, rook_from)}), {PieceKey(us, Rook, rook_to)})
              ELSE h3
        h5 == Xor(h4, {SideKey})
        h6 == IF rights[us] # position.castling_rights[us]
              THEN Xor(Xor(h5, {CastlingKey(us, position.castling_rights[us])}),
                       {CastlingKey(us, rights[us])})
              ELSE h5
        h7 == IF rights[them] # position.castling_rights[them]
              THEN Xor(Xor(h6, {CastlingKey(them, position.castling_rights[them])}),
                       {CastlingKey(them, rights[them])})
              ELSE h6
        h8 == IF position.en_passant # NoSquare
              THEN Xor(h7, {EnPassantKey(position.en_passant)}) ELSE h7
        h9 == IF en_passant # NoSquare THEN Xor(h8, {EnPassantKey(en_passant)}) ELSE h8
    IN  [pieces |-> p4,
         castling_rights |-> rights,
         en_passant |-> en_passant,
         color_to_move |-> them,
         hash |-> h9]

(***************************************************************************)
(* Pawn move generation (move_gen/pawn_moves.rs).  A MoveList is the       *)
(* sequence of its plies.                                                  *)
(***************************************************************************)
RECURSIVE SortedSeq(_)
\* Bitboard::get_active_bits: the squares of a bitboard in ascending order
SortedSeq(S) ==
    IF S = {} THEN <<>>
    ELSE LET m == CHOOSE x \in S : \A y \in S : x <= y
         IN  <<m>> \o SortedSeq(S \ {m})

\* the push without the legality test
push_unfiltered(position, ply) == <<ply>>

\* if position.make_move(ply).is_legal() { move_list.push(ply); }
\* as the plies the statement pushes
push_if_legal(position, ply) ==
    IF is_legal(PositionMakeMove(position, ply)) THEN <<ply>> ELSE <<>>

\* the range without its last index
PromotionPieceIndexesShort == <<1, 2, 3>>

\* Piece::Knight.to_index() .. Piece::Queen.to_index() + 1
PromotionPieceIndexes == <<1, 2, 3, 4>>

\* the promotion loop: the plies it pushes, from index i on
RECURSIVE push_promotions(_, _, _, _, _)
push_promotions(position, source, target, captured_piece, i) ==
    IF i > Len(PromotionPieceIndexes) THEN <<>>
    ELSE push_if_legal(position,
             Ply(source, target, Pawn, captured_piece,
                 PieceFromIndex(PromotionPieceIndexes[i])))
         \o push_promotions(position, source, target, captured_piece, i + 1)

\* the loop body with the double push tried only after a legal single push
quiet_pawn_moves_from_nested(position, source) ==
    LET color == position.color_to_move
        occupancies == GetOccupancies(position)
        target == IF color = White THEN SquareUp(source) ELSE SquareDown(source)
    IN  IF target \in occupancies THEN <<>>
        ELSE IF GetRank(target) = promotion_rank(color)
        THEN push_promotions(position, source, target, None, 1)
        ELSE LET double_pawn_push_target ==
                     IF color = White THEN SquareUp(target) ELSE SquareDown(target)
                 single == push_if_legal(position, Ply(source, target, Pawn, None, None))
             IN  single
                 \o (IF single # <<>>
                        /\ GetRank(source) = pawn_rank(color)
                        /\ double_pawn_push_target \notin occupancies
                     THEN push_if_legal(position,
                              Ply(source, double_pawn_push_target, Pawn, None, None))
                     ELSE <<>>)

\* the plies the loop body of generate_quiet_pawn_moves pushes for one source square
quiet_pawn_moves_from(position, source) ==
    LET color == position.color_to_move
        occupancies == GetOccupancies(position)
        target == IF color = White THEN SquareUp(source) ELSE SquareDown(source)
    IN  IF target \in occupancies THEN <<>>
        ELSE IF GetRank(target) = promotion_rank(color)
        THEN push_promotions(position, source, target, None, 1)
        ELSE LET double_pawn_push_target ==
                     IF color = White THEN SquareUp(target) ELSE SquareDown(target)
             IN  push_if_legal(position, Ply(source, target, Pawn, None, None))
                 \o (IF GetRank(source) = pawn_rank(color)
                        /\ double_pawn_push_target \notin occupancies
                     THEN push_if_legal(position,
                              Ply(source, double_pawn_push_target, Pawn, None, None))
                     ELSE <<>>)

RECURSIVE quiet_pawn_loop(_, _, _)
quiet_pawn_loop(position, active_squares, i) ==
    IF i > Len(active_squares) THEN <<>>
    ELSE quiet_pawn_moves_from(position, active_squares[i])
         \o quiet_pawn_loop(position, active_squares, i + 1)

generate_quiet_pawn_moves(position, ml) ==
    ml \o quiet_pawn_loop(position,
              SortedSeq(position.pieces[position.color_to_move][Pawn]), 1)

\* the plies the inner loop body of generate_attacking_pawn_moves pushes for one target
attacking_pawn_move_to(position, source, target) ==
    LET attacked == GetPiece(position, target)
    IN  IF attacked = NoPiece THEN <<>>
        ELSE IF GetRank(target) = promotion_rank(position.color_to_move)
        THEN push_promotions(position, source, target, attacked.piece, 1)
        ELSE push_if_legal(position, Ply(source, target, Pawn, attacked.piece, None))

RECURSIVE attacking_target_loop(_, _, _, _)
attacking_target_loop(position, source, targets, j) ==
    IF j > Len(targets) THEN <<>>
    ELSE attacking_pawn_move_to(position, source, targets[j])
         \o attacking_target_loop(position, source, targets, j + 1)

RECURSIVE attacking_pawn_loop(_, _, _)
attacking_pawn_loop(position, active_squares, i) ==
    IF i > Len(active_squares) THEN <<>>
    ELSE LET source == active_squares[i]
             target_attack_bb ==
                 get_pawn_attacks(source, position.color_to_move)
                 \cap GetOccupancy(position, Other(position.color_to_move))
         IN  attacking_target_loop(position, source, SortedSeq(target_attack_bb), 1)
             \o attacking_pawn_loop(position, active_squares, i + 1)

generate_attacking_pawn_moves(position, ml) ==
    ml \o attacking_pawn_loop(position,
              SortedSeq(position.pieces[position.color_to_move][Pawn]), 1)

\* the plies one side (left or right file) of generate_en_passant_moves pushes
en_passant_move_from(position, source_file) ==
    LET pawn_bb == position.pieces[position.color_to_move][Pawn]
        source_rank == double_pawn_push_target_rank(Other(position.color_to_move))
        source == FromFileRank(source_file, source_rank)
    IN  IF source \in pawn_bb
        THEN push_if_legal(position, Ply(source, position.en_passant, Pawn, Pawn, None))
        ELSE <<>>

\* both neighbouring files tried whatever the file of the target
generate_en_passant_moves_wrapping(position, ml) ==
    IF position.en_passant = NoSquare THEN ml
    ELSE LET file == GetFile(position.en_passant)
         IN  ml
             \o en_passant_move_from(position, FileLeft(file))
             \o en_passant_move_from(position, FileRight(file))

generate_en_passant_moves(position, ml) ==
    IF position.en_passant = NoSquare THEN ml
    ELSE LET file == GetFile(position.en_passant)
         IN  ml
             \o (IF file # 0 THEN en_passant_move_from(position, FileLeft(file)) ELSE <<>>)
             \o (IF file # 7 THEN en_passant_move_from(position, FileRight(file)) ELSE <<>>)

generate_pawn_moves(position, ml) ==
    generate_en_passant_moves(position,
        generate_attacking_pawn_moves(position,
            generate_quiet_pawn_moves(position, ml)))

(***************************************************************************)
(* Knight and king steps, generated and filtered the same way.             *)
(***************************************************************************)
RECURSIVE step_target_loop(_, _, _, _, _)
step_target_loop(position, piece, source, targets, j) ==
    IF j > Len(targets) THEN <<>>
    ELSE push_if_legal(position,
             Ply(source, targets[j], piece, GetPiece(position, targets[j]).piece, None))
         \o step_target_loop(position, piece, source, targets, j + 1)

RECURSIVE step_loop(_, _, _, _)
step_loop(position, piece, active_squares, i) ==
    IF i > Len(active_squares) THEN <<>>
    ELSE LET source == active_squares[i]
             attacks == IF piece = Knight THEN get_knight_attacks(source)
                        ELSE get_king_attacks(source)
             targets == attacks \ GetOccupancy(position, position.color_to_move)
         IN  step_target_loop(position, piece, source, SortedSeq(targets), 1)
             \o step_loop(position, piece, active_squares, i + 1)

generate_step_moves(position, piece, ml) ==
    ml \o step_loop(position, piece,
              SortedSeq(position.pieces[position.color_to_move][piece]), 1)

(***************************************************************************)
(* Board::make_move and Board::is_draw (board.rs).                         *)
(***************************************************************************)
\* board.halfmove_clock after the update, before any overflow is considered
HalfmoveResets(ply) == ~(ply.piece # Pawn /\ ply.captured_piece = None)

\* the u32 additions make_move performs overflow
MakeMoveOverflows(b, ply) ==
    \/ ~HalfmoveResets(ply) /\ b.halfmove_clock = U32Max
    \/ b.position.color_to_move = Black /\ b.fullmove_counter = U32Max

U32WrappingInc(a) == IF a = U32Max THEN U32Zero ELSE U32Succ(a)

\* the board make_move returns when its additions wrap or do not overflow
BoardMakeMove(b, ply) ==
    [position |-> PositionMakeMove(b.position, ply),
     halfmove_clock |->
        IF HalfmoveResets(ply) THEN U32Zero ELSE U32WrappingInc(b.halfmove_clock),
     fullmove_counter |->
        IF b.position.color_to_move = Black THEN U32WrappingInc(b.fullmove_counter)
        ELSE b.fullmove_counter]

RECURSIVE repetition_loop_short(_, _, _, _, _)
\* the loop leaving once i has reached the halfmove clock
repetition_loop_short(b, history, idx, i, repetition_count) ==
    IF idx < 1 THEN repetition_count
    ELSE LET count == IF history[idx] = b.position.hash
                      THEN repetition_count + 1 ELSE repetition_count
         IN  IF ~U32Lt(U32(i + 1), b.halfmove_clock) THEN count
             ELSE repetition_loop_short(b, history, idx - 1, i + 1, count)

RECURSIVE repetition_loop(_, _, _, _, _)
\* the loop of is_draw over board_history.iter().rev(); idx is the entry examined
repetition_loop(b, history, idx, i, repetition_count) ==
    IF idx < 1 THEN repetition_count
    ELSE LET count == IF history[idx] = b.position.hash
                      THEN repetition_count + 1 ELSE repetition_count
         IN  IF U32Lt(b.halfmove_clock, U32(i + 1)) THEN count
             ELSE repetition_loop(b, history, idx - 1, i + 1, count)

\* the 50 move rule applied only beyond 100 plies
is_draw_late(b, history) ==
    IF U32Lt(U32(100), b.halfmove_clock) THEN TRUE
    ELSE IF history = <<>> THEN FALSE
    ELSE repetition_loop(b, history, Len(history), 0, 0) >= 3

is_draw(b, history) ==
    IF U32Ge(b.halfmove_clock, U32(100)) THEN TRUE
    ELSE IF history = <<>> THEN FALSE
    ELSE repetition_loop(b, history, Len(history), 0, 0) >= 3

(***************************************************************************)
(* The state of the search thread (search.rs).                             *)
(***************************************************************************)
MAX_PLY == 100

\* the highest ply index the tables of SearchInfo are kept for
MaxPlyIndex == 1
PlyIndexes == 0 .. MaxPlyIndex

\* Ply::default(): the null move a1 to a1
PlyDefault == Ply(0, 0, Pawn, None, None)

\* SearchInfo::default()
SearchInfoDefault ==
    [node_count |-> 0,
     pv_length |-> [i \in PlyIndexes |-> 0],
     pv_table |-> [i \in PlyIndexes |-> [j \in PlyIndexes |-> PlyDefault]],
     killer_moves |-> [k \in 0 .. 1 |-> [i \in PlyIndexes |-> PlyDefault]],
     history_moves |-> [p \in 0 .. 5 |-> [sq \in Squares |-> 0]],
     follow_pv |-> TRUE]

\* Search::new
SearchNew == [total_time |-> None, stop |-> TRUE, search_info |-> SearchInfoDefault]

\* the two mpsc channels, nothing sent, the command sender and the message
\* receiver of the driver not dropped
ChannelNew == [commands |-> <<>>, messages |-> <<>>, closed |-> FALSE,
               receiver_dropped |-> FALSE]

(***************************************************************************)
(* The game: a position is set up from FEN text, then moves are generated  *)
(* and made; to_fen and is_draw are called on the boards reached.          *)
(***************************************************************************)

\* 4k3/P7/8/8/8/8/7p/4K3 w - - 0 1   (both sides have a pawn one step from promotion)
FenPromotion ==
    <<"4", "k", "3", "/", "P", "7", "/", "8", "/", "8", "/", "8", "/", "8", "/", "7", "p", "/", "4", "K", "3", " ", "w", " ", "-", " ", "-", " ", "0", " ", "1">>
\* 1r2k3/P7/8/8/8/8/8/K7 w - - 3 9   (a pawn that promotes by push or by capture)
FenPromotionCapture ==
    <<"1", "r", "2", "k", "3", "/", "P", "7", "/", "8", "/", "8", "/", "8", "/", "8", "/", "8", "/", "K", "7", " ", "w", " ", "-", " ", "-", " ", "3", " ", "9">>
\* 4k3/8/8/8/8/6b1/5P2/4K3 w - - 0 1   (a pawn pinned on the diagonal: no push is legal, the capture of the pinning bishop is)
FenPinned ==
    <<"4", "k", "3", "/", "8", "/", "8", "/", "8", "/", "8", "/", "6", "b", "1", "/", "5", "P", "2", "/", "4", "K", "3", " ", "w", " ", "-", " ", "-", " ", "0", " ", "1">>
\* 4k3/8/8/3pP3/8/8/8/4K3 w - d6 0 2   (en passant is possible)
FenEnPassant ==
    <<"4", "k", "3", "/", "8", "/", "8", "/", "3", "p", "P", "3", "/", "8", "/", "8", "/", "8", "/", "4", "K", "3", " ", "w", " ", "-", " ", "d", "6", " ", "0", " ", "2">>
\* 8/8/8/K2pP2r/8/8/8/4k3 w - d6 0 2   (en passant would expose the king on the rank)
FenEnPassantPinned ==
    <<"8", "/", "8", "/", "8", "/", "K", "2", "p", "P", "2", "r", "/", "8", "/", "8", "/", "8", "/", "4", "k", "3", " ", "w", " ", "-", " ", "d", "6", " ", "0", " ", "2">>
\* 4k3/3p4/8/4P3/8/8/8/4K3 b - - 98 7   (a double push that allows en passant; halfmove clock near 100)
FenDoublePush ==
    <<"4", "k", "3", "/", "3", "p", "4", "/", "8", "/", "4", "P", "3", "/", "8", "/", "8", "/", "8", "/", "4", "K", "3", " ", "b", " ", "-", " ", "-", " ", "9", "8", " ", "7">>
\* r3k2r/8/8/8/8/8/8/R3K1NR w KQkq - 5 10   (castling rights that king moves revoke, and a knight)
FenCastling ==
    <<"r", "3", "k", "2", "r", "/", "8", "/", "8", "/", "8", "/", "8", "/", "8", "/", "8", "/", "R", "3", "K", "1", "N", "R", " ", "w", " ", "K", "Q", "k", "q", " ", "-", " ", "5", " ", "1", "0">>
\* 4k3/8/8/8/8/8/8/4K3 w - - 4294967295 1   (the largest halfmove clock)
FenClockMax ==
    <<"4", "k", "3", "/", "8", "/", "8", "/", "8", "/", "8", "/", "8", "/", "8", "/", "4", "K", "3", " ", "w", " ", "-", " ", "-", " ", "4", "2", "9", "4", "9", "6", "7", "2", "9", "5", " ", "1">>
\* 4k3/8/8/8/8/8/4P3/4K3 b - - 7 4294967295   (the largest fullmove counter, Black to move)
FenCounterMax ==
    <<"4", "k", "3", "/", "8", "/", "8", "/", "8", "/", "8", "/", "8", "/", "4", "P", "3", "/", "4", "K", "3", " ", "b", " ", "-", " ", "-", " ", "7", " ", "4", "2", "9", "4", "9", "6", "7", "2", "9", "5">>
\* 8/r3P2K/8/8/8/8/8/k7 w - - 0 1   (a pawn pinned on the rank in front of its promotion square)
FenPinnedPromotion ==
    <<"8", "/", "r", "3", "P", "2", "K", "/", "8", "/", "8", "/", "8", "/", "8", "/", "8", "/", "k", "7", " ", "w", " ", "-", " ", "-", " ", "0", " ", "1">>
\* 4k3/8/8/8/K6r/8/4P3/8 w - - 0 1   (only the double push of the pawn blocks the check)
FenDoublePushBlocks ==
    <<"4", "k", "3", "/", "8", "/", "8", "/", "8", "/", "K", "6", "r", "/", "8", "/", "4", "P", "3", "/", "8", " ", "w", " ", "-", " ", "-", " ", "0", " ", "1">>
\* 4k3/8/8/pP5P/8/8/8/4K3 w - a6 0 2   (en passant onto file a, with a pawn of the mover on file h)
FenEnPassantFileA ==
    <<"4", "k", "3", "/", "8", "/", "8", "/", "p", "P", "5", "P", "/", "8", "/", "8", "/", "8", "/", "4", "K", "3", " ", "w", " ", "-", " ", "a", "6", " ", "0", " ", "2">>
\* 4k3/8/8/8/p5pP/8/8/4K3 b - h3 0 1   (en passant onto file h, with a pawn of the mover on file a)
FenEnPassantFileH ==
    <<"4", "k", "3", "/", "8", "/", "8", "/", "8", "/", "p", "5", "p", "P", "/", "8", "/", "8", "/", "4", "K", "3", " ", "b", " ", "-", " ", "h", "3", " ", "0", " ", "1">>
\* 4k3/8/8/2PpP3/8/8/8/4K3 w - d6 0 2   (pawns on both neighbouring files capture en passant)
FenEnPassantBoth ==
    <<"4", "k", "3", "/", "8", "/", "8", "/", "2", "P", "p", "P", "3", "/", "8", "/", "8", "/", "8", "/", "4", "K", "3", " ", "w", " ", "-", " ", "d", "6", " ", "0", " ", "2">>

GameFens ==
    {FenPromotion,
     FenPromotionCapture,
     FenPinned,
     FenPinnedPromotion,
     FenEnPassant,
     FenEnPassantPinned,
     FenEnPassantFileA,
     FenEnPassantFileH,
     FenEnPassantBoth,
     FenDoublePush,
     FenDoublePushBlocks,
     FenCastling,
     FenClockMax,
     FenCounterMax}

\* the number of make_move calls of one game
MaxPlies == 2

NotParsed == [ok |-> FALSE, val |-> "not parsed"]
NoInput == [kind |-> "game", token |-> <<>>, index |-> 0, sep |-> <<>>]
NoCall == [op |-> "none", text |-> <<>>, reparsed |-> NotParsed, draw |-> FALSE]

\* 8/8/8/8/8/8/8/8 w - - 0 1
EmptyBoard ==
    [position |-> PositionNew(EmptyPieces, [c \in ColorSet |-> NoRights], NoSquare, White),
     fullmove_counter |-> U32(1),
     halfmove_clock |-> U32Zero]

Init ==
    /\ fen \in GameFens
    /\ input = NoInput
    /\ parsed = NotParsed
    /\ board = EmptyBoard
    /\ board_history = <<>>
    /\ move_list = <<>>
    /\ played = <<>>
    /\ last = NoCall
    /\ pc = "start"
    /\ search = SearchNew
    /\ channel = ChannelNew

\* Board::from_fen(fen); the game's history starts with the position's hash
FromFen ==
    /\ pc = "start"
    /\ parsed' = from_fen(fen)
    /\ IF parsed'.ok
       THEN /\ board' = parsed'.val
            /\ board_history' = <<parsed'.val.position.hash>>
            /\ pc' = "ready"
       ELSE /\ pc' = IF parsed' = Panic THEN "panicked" ELSE "rejected"
            /\ UNCHANGED <<board, board_history>>
    /\ UNCHANGED <<search, channel, input, fen, move_list, played, last>>

\* generate_pawn_moves(board.position, &mut move_list) on a new move list
GeneratePawnMoves ==
    /\ pc = "ready"
    /\ Len(played) < MaxPlies
    /\ move_list' = generate_pawn_moves(board.position, <<>>)
    /\ pc' = "generated"
    /\ last' = NoCall
    /\ UNCHANGED <<search, channel, input, fen, parsed, board, board_history, played>>

SeqRange(q) == {q[i] : i \in 1 .. Len(q)}

\* the legal pawn, knight and king moves of the position
LegalMoves ==
    SeqRange(move_list)
    \cup SeqRange(generate_step_moves(board.position, Knight, <<>>))
    \cup SeqRange(generate_step_moves(board.position, King, <<>>))

\* board.make_move(ply) for a generated move; the new position's hash is pushed on
\* the history.  An overflowing u32 addition panics (overflow checks on) or wraps.
MakeMove ==
    /\ pc = "generated"
    /\ \E ply \in LegalMoves :
        /\ played' = Append(played, ply)
        /\ \/ /\ board' = BoardMakeMove(board, ply)
              /\ board_history' = Append(board_history, board'.position.hash)
              /\ pc' = "ready"
           \/ /\ MakeMoveOverflows(board, ply)
              /\ pc' = "panicked"
              /\ UNCHANGED <<board, board_history>>
    /\ UNCHANGED <<search, channel, input, fen, parsed, move_list, last>>

\* board.to_fen(), and Board::from_fen of the text
ToFen ==
    /\ pc = "ready"
    /\ last.op # "to_fen"
    /\ last' = [op |-> "to_fen", text |-> to_fen(board),
                reparsed |-> from_fen(to_fen(board)), draw |-> FALSE]
    /\ UNCHANGED <<search, channel, input, fen, parsed, board, board_history, move_list, played, pc>>

\* board.is_draw(&board_history)
IsDraw ==
    /\ pc = "ready"
    /\ last.op # "is_draw"
    /\ last' = [op |-> "is_draw", text |-> <<>>, reparsed |-> NotParsed,
                draw |-> is_draw(board, board_history)]
    /\ UNCHANGED <<search, channel, input, fen, parsed, board, board_history, move_list, played, pc>>

Next == FromFen \/ GeneratePawnMoves \/ MakeMove \/ ToFen \/ IsDraw

Spec == Init /\ [][Next]_vars

(***************************************************************************)
(* Properties of the game.                                                 *)
(***************************************************************************)
PawnTarget(color, source) == IF color = White THEN SquareUp(source) ELSE SquareDown(source)

\* C1: every ply generate_pawn_moves pushed leads to a position in which the
\* mover's own king is not attacked.
C1_PushedMovesAreLegal ==
    pc = "generated" =>
        \A i \in 1 .. Len(move_list) :
            is_legal(PositionMakeMove(board.position, move_list[i]))

\* moves were pushed while the push of some pawn onto an empty square was held back
C1_Witness ==
    /\ pc = "generated"
    /\ move_list # <<>>
    /\ \E source \in board.position.pieces[board.position.color_to_move][Pawn] :
        LET target == PawnTarget(board.position.color_to_move, source)
        IN  /\ target \notin GetOccupancies(board.position)
            /\ \A i \in 1 .. Len(move_list) :
                 ~(move_list[i].source = source /\ move_list[i].target = target)

\* C2: from_fen(b.to_fen()) is b, for the board from_fen returned and for every
\* board reached from it by generated legal moves.
C2_RoundTrip ==
    (pc = "ready" /\ last.op = "to_fen") =>
        /\ last.reparsed.ok
        /\ last.reparsed.val = board

RECURSIVE ClockAfter(_, _, _)
\* the halfmove clock the rule "0 on a pawn move or capture, else + 1" yields
ClockAfter(clock, plies, i) ==
    IF i > Len(plies) THEN clock
    ELSE ClockAfter(IF plies[i].piece = Pawn \/ plies[i].captured_piece # None
                    THEN U32Zero ELSE U32Succ(clock),
                    plies, i + 1)

\* C3: make_move sets the halfmove clock to 0 on a pawn move or capture and to the
\* previous clock + 1 otherwise, so the clock counts the plies since the last
\* pawn move or capture.
C3_HalfmoveClock ==
    (pc \in {"ready", "panicked"} /\ played # <<>>) =>
        /\ pc = "ready"
        /\ board.halfmove_clock = ClockAfter(parsed.val.halfmove_clock, played, 1)

RECURSIVE CounterAfter(_, _, _)
\* the fullmove counter after n plies, the first one made by color
CounterAfter(counter, color, n) ==
    IF n = 0 THEN counter
    ELSE CounterAfter(IF color = Black THEN U32Succ(counter) ELSE counter, Other(color), n - 1)

\* C4: the fullmove counter is at least 1 after from_fen and after every make_move,
\* which adds exactly 1 when Black was to move and nothing when White was.
C4_FullmoveCounter ==
    pc \in {"ready", "generated", "panicked"} =>
        /\ pc # "panicked"
        /\ U32Ge(board.fullmove_counter, U32(1))
        /\ board.fullmove_counter =
             CounterAfter(parsed.val.fullmove_counter, parsed.val.position.color_to_move,
                          Len(played))

PromotionOrder == <<Knight, Bishop, Rook, Queen>>

\* C10: the moves onto the promotion rank come in runs of exactly four consecutive
\* plies of one pawn and target, promoting to Knight, Bishop, Rook, Queen in that
\* order; no other pawn move carries a promotion piece.
C10_PromotionsInFours ==
    pc = "generated" =>
        \A i \in 1 .. Len(move_list) :
            LET m == move_list[i]
            IN  IF GetRank(m.target) = promotion_rank(board.position.color_to_move)
                THEN \E k \in 1 .. Len(move_list) - 3 :
                        /\ i \in k .. k + 3
                        /\ \A j \in 0 .. 3 :
                             move_list[k + j] =
                                 [m EXCEPT !.promotion_piece = PromotionOrder[j + 1]]
                        /\ \A n \in 1 .. Len(move_list) :
                             (move_list[n].source = m.source /\ move_list[n].target = m.target)
                                 => n \in k .. k + 3
                ELSE m.promotion_piece = None

\* the list holds promotions by push and promotions by capture
C10_Witness ==
    /\ pc = "generated"
    /\ \E i, j \in 1 .. Len(move_list) :
        /\ move_list[i].promotion_piece # None /\ move_list[i].captured_piece = None
        /\ move_list[j].promotion_piece # None /\ move_list[j].captured_piece # None

(***************************************************************************)
(* is_draw as a function of the halfmove clock and the history.            *)
(***************************************************************************)
MaxClock == 5
MaxHistory == 5

\* 4k3/8/8/8/8/8/8/4K3 w - - 0 1
DrawBoard ==
    [position |-> PositionNew([EmptyPieces EXCEPT ![White][King] = {4}, ![Black][King] = {60}],
                              [c \in ColorSet |-> NoRights], NoSquare, White),
     fullmove_counter |-> U32(1),
     halfmove_clock |-> U32Zero]

\* the hash of the board's position and the hash of another position
DrawHashes == {DrawBoard.position.hash, EmptyBoard.position.hash}

DrawClocks == {U32(c) : c \in 0 .. MaxClock} \cup {U32(99), U32(100), U32(101), U32Max}

Histories == UNION {[1 .. n -> DrawHashes] : n \in 0 .. MaxHistory}

InitDraw ==
    /\ fen = <<>>
    /\ input = [NoInput EXCEPT !.kind = "draw"]
    /\ parsed = NotParsed
    /\ \E clock \in DrawClocks : board = [DrawBoard EXCEPT !.halfmove_clock = clock]
    /\ board_history \in Histories
    /\ move_list = <<>>
    /\ played = <<>>
    /\ last = NoCall
    /\ pc = "ready"
    /\ search = SearchNew
    /\ channel = ChannelNew

NextDraw == IsDraw

SpecDraw == InitDraw /\ [][NextDraw]_vars

\* the number of entries among the newest n of the history that equal hash
Repetitions(history, hash, n) ==
    Cardinality({i \in 1 .. Len(history) : i > Len(history) - n /\ history[i] = hash})

\* C5: a board whose halfmove clock is at least 100 is a draw whatever the history,
\* the empty history included; with a clock of 99 and fewer than three entries
\* equal to the position's hash it is not a draw.
C5_FiftyMoveRule ==
    last.op = "is_draw" =>
        /\ U32Ge(board.halfmove_clock, U32(100)) => last.draw
        /\ (/\ board.halfmove_clock = U32(99)
            /\ Repetitions(board_history, board.position.hash, Len(board_history)) < 3)
              => ~last.draw

\* is_draw answered for a clock of exactly 100 with an empty history
C5_Witness ==
    /\ last.op = "is_draw"
    /\ board.halfmove_clock = U32(100)
    /\ board_history = <<>>
    /\ last.draw

\* the halfmove clock as a number, for clocks below 100
ClockValue == board.halfmove_clock[2]

\* C6 as stated: below a clock of 100 the answer is whether at least 3 of the newest
\* halfmove_clock entries of the history equal the position's hash.
C6_ExaminesClockEntries ==
    (last.op = "is_draw" /\ U32Lt(board.halfmove_clock, U32(100))) =>
        (last.draw <=> Repetitions(board_history, board.position.hash, ClockValue) >= 3)

\* C6: below a clock of 100 the answer is whether at least 3 of the newest
\* halfmove_clock + 1 entries of the history equal the position's hash; older
\* entries never count.
C6_ExaminesClockPlusOneEntries ==
    (last.op = "is_draw" /\ U32Lt(board.halfmove_clock, U32(100))) =>
        (last.draw <=> Repetitions(board_history, board.position.hash, ClockValue + 1) >= 3)

\* three entries equal the hash, but one of them is older than the entries examined
C6_Witness ==
    /\ last.op = "is_draw"
    /\ U32Lt(board.halfmove_clock, U32(100))
    /\ Len(board_history) > ClockValue + 1
    /\ Repetitions(board_history, board.position.hash, Len(board_history)) >= 3
    /\ Repetitions(board_history, board.position.hash, ClockValue + 1) < 3
    /\ ~last.draw

(***************************************************************************)
(* from_fen on FEN texts put together from rows, fields and tokens.        *)
(***************************************************************************)
MaxRowLen == 3
MaxFields == 8

RECURSIVE Join(_, _)
\* the tokens, sep between neighbours
Join(tokens, sep) ==
    IF tokens = <<>> THEN <<>>
    ELSE IF Len(tokens) = 1 THEN tokens[1]
    ELSE tokens[1] \o sep \o Join(Tail(tokens), sep)

Space == <<" ">>

\* the characters a rank row is made of here: piece letters and digit skips
RowAlphabet == {"P", "k", "1", "2", "4", "7", "8"}
Rows == UNION {[1 .. n -> RowAlphabet] : n \in 0 .. MaxRowLen}
RowRanks == {0, 4, 7}

\* the number of files a row of piece letters and digit skips covers
RECURSIVE Covered(_)
Covered(row) ==
    IF row = <<>> THEN 0
    ELSE (IF Head(row) \in DigitSet THEN DigitVal(Head(row)) ELSE 1) + Covered(Tail(row))

EmptyRow == <<"8">>
TailFields == <<<<"w">>, <<"-">>, <<"-">>, <<"0">>, <<"1">>>>

\* the FEN whose rank row rank_index is row, every other row being empty
RowFen(row, rank_index) ==
    Join(<<Join([i \in 1 .. NUM_RANKS |-> IF i = rank_index + 1 THEN row ELSE EmptyRow], <<"/">>)>>
         \o TailFields, Space)

\* 4k3/8/8/8/8/8/4P3/4K3 w - - 5 7, token by token
FieldTokens ==
    <<<<"4", "k", "3", "/", "8", "/", "8", "/", "8", "/", "8", "/", "8", "/", "4", "P", "3", "/", "4", "K", "3">>,
      <<"w">>, <<"-">>, <<"-">>, <<"5">>, <<"7">>>>

\* the first n tokens of the text 4k3/8/8/8/8/8/4P3/4K3 w - - 5 7 x x x ...
Fields(n) == [i \in 1 .. n |-> IF i <= Len(FieldTokens) THEN FieldTokens[i] ELSE <<"x">>]
Separators == {Space, <<" ", " ">>, <<"\t">>, <<" ", "\t", " ">>}

\* tokens a field is replaced by that from_fen has to reject, per field
BadTokens ==
    <<{<<"8", "/", "8", "/", "8", "/", "8", "/", "8", "/", "8", "/", "8">>, <<"8", "/", "8", "/", "8", "/", "8", "/", "8", "/", "8", "/", "8", "/", "8", "/", "8">>, <<"9", "/", "8", "/", "8", "/", "8", "/", "8", "/", "8", "/", "8", "/", "8">>, <<"8", "/", "8", "/", "8", "/", "8", "/", "x", "7", "/", "8", "/", "8", "/", "8">>, <<"0", "/", "8", "/", "8", "/", "8", "/", "8", "/", "8", "/", "8", "/", "8">>, <<"/", "8", "/", "8", "/", "8", "/", "8", "/", "8", "/", "8", "/", "8", "/", "8", "/">>, <<"8">>},
      {<<"W">>, <<"B">>, <<"x">>, <<"w", "b">>, <<"-">>, <<"w", "h", "i", "t", "e">>},
      {<<"k", "q", "K", "Q">>, <<"K", "Q", "K", "Q">>, <<"q", "k">>, <<"Q", "K">>, <<"k", "K">>, <<"K", "Q", "k", "q", "q">>, <<"-", "-">>, <<"x">>, <<"K", "Q", "k", "q", "-">>},
      {<<"e">>, <<"e", "9">>, <<"e", "0">>, <<"i", "3">>, <<"e", "3", "3">>, <<"E", "3">>, <<"3", "e">>, <<"-", "-">>},
      {<<"-", "1">>, <<"x">>, <<"1", "x">>, <<"1", ".", "5">>, <<"4", "2", "9", "4", "9", "6", "7", "2", "9", "6">>, <<"9", "9", "9", "9", "9", "9", "9", "9", "9", "9", "9">>, <<"-">>, <<"+">>, <<"0", "x", "1", "0">>},
      {<<"0">>, <<"0", "0">>, <<"+", "0">>, <<"-", "1">>, <<"x">>, <<"1", "x">>, <<"4", "2", "9", "4", "9", "6", "7", "2", "9", "6">>, <<"-">>}>>

\* tokens a field is replaced by that from_fen accepts, per field
GoodTokens ==
    <<{<<"8", "/", "8", "/", "8", "/", "8", "/", "8", "/", "8", "/", "8", "/", "8">>, <<"r", "n", "b", "q", "k", "b", "n", "r", "/", "p", "p", "p", "p", "p", "p", "p", "p", "/", "8", "/", "8", "/", "8", "/", "8", "/", "P", "P", "P", "P", "P", "P", "P", "P", "/", "R", "N", "B", "Q", "K", "B", "N", "R">>, <<"r", "3", "k", "2", "r", "/", "8", "/", "8", "/", "8", "/", "8", "/", "8", "/", "8", "/", "R", "3", "K", "2", "R">>},
      {<<"w">>, <<"b">>},
      {e.s : e \in CastlingSpellings},
      {<<"-">>, <<"e", "3">>, <<"d", "6">>, <<"a", "1">>, <<"h", "8">>},
      {<<"0">>, <<"9", "9">>, <<"1", "0", "0">>, <<"0", "0", "7">>, <<"4", "2", "9", "4", "9", "6", "7", "2", "9", "5">>},
      {<<"1">>, <<"2">>, <<"0", "1", "0">>, <<"4", "2", "9", "4", "9", "6", "7", "2", "9", "5">>}>>

RowInputs ==
    {[kind |-> "row", token |-> row, index |-> r, sep |-> Space] : row \in Rows, r \in RowRanks}
FieldsInputs ==
    {[kind |-> "fields", token |-> <<>>, index |-> n, sep |-> sep] :
        n \in 0 .. MaxFields, sep \in Separators}
TokenInputs ==
    UNION {{[kind |-> "token", token |-> tok, index |-> f, sep |-> Space] :
              tok \in BadTokens[f] \cup GoodTokens[f]} : f \in 1 .. 6}

\* the FEN text of an input
FenOf(in) ==
    IF in.kind = "row" THEN RowFen(in.token, in.index)
    ELSE IF in.kind = "fields" THEN Join(Fields(in.index), in.sep)
    ELSE Join([FieldTokens EXCEPT ![in.index] = in.token], Space)

InitFen ==
    /\ input \in RowInputs \cup FieldsInputs \cup TokenInputs
    /\ fen = FenOf(input)
    /\ parsed = NotParsed
    /\ board = EmptyBoard
    /\ board_history = <<>>
    /\ move_list = <<>>
    /\ played = <<>>
    /\ last = NoCall
    /\ pc = "start"
    /\ search = SearchNew
    /\ channel = ChannelNew

NextFen == FromFen \/ ToFen

SpecFen == InitFen /\ [][NextFen]_vars

\* C7: a FEN one of whose rank rows covers more or fewer than 8 files, the empty
\* row included, is rejected with "Invalid FEN"; a row covering exactly 8 files is
\* accepted.
C7_RowsCoverEightFiles ==
    (input.kind = "row" /\ pc # "start") =>
        IF Covered(input.token) = NUM_FILES THEN parsed.ok ELSE parsed = Err

\* the text with its first 4, 5 or 6 fields and the defaults appended
Padded(n) ==
    Join(Fields(n)
         \o (IF n = 4 THEN << <<"0">>, <<"1">> >> ELSE IF n = 5 THEN << <<"1">> >> ELSE <<>>),
         Space)

\* C8: 4, 5 or 6 whitespace separated fields are accepted, 4 fields as the same
\* text with halfmove clock 0 and fullmove counter 1 appended, 5 fields as with
\* fullmove counter 1 appended; any other number of fields is rejected with
\* "Invalid FEN".
C8_FieldsAndDefaults ==
    (input.kind = "fields" /\ pc # "start") =>
        IF input.index \in {4, 5, 6}
        THEN /\ parsed.ok
             /\ parsed = from_fen(Padded(input.index))
             /\ parsed.val.halfmove_clock = (IF input.index = 4 THEN U32Zero ELSE U32(5))
             /\ parsed.val.fullmove_counter = (IF input.index = 6 THEN U32(7) ELSE U32(1))
        ELSE parsed = Err

\* four fields were parsed with both defaults
C8_Witness ==
    /\ input.kind = "fields"
    /\ input.index = 4
    /\ input.sep # Space
    /\ pc = "ready"
    /\ parsed.val.halfmove_clock = U32Zero
    /\ parsed.val.fullmove_counter = U32(1)

\* C9: from_fen does not panic, every rejection is the one value Err("Invalid FEN"),
\* and a side to move other than w or b, a castling field outside the 16 spellings,
\* an en passant field that is neither - nor a square, a halfmove clock that is not
\* a decimal u32 and a fullmove counter that is not a decimal u32 or is 0 are
\* rejected.
C9_OneErrorNoPanic ==
    pc # "start" =>
        /\ pc # "panicked"
        /\ parsed # Panic
        /\ ~parsed.ok => (parsed = Err /\ pc = "rejected")
        /\ (input.kind = "token" /\ input.token \in BadTokens[input.index]) => parsed = Err
        /\ (input.kind = "token" /\ input.token \in GoodTokens[input.index]) => parsed.ok

\* the castling field kqKQ was rejected
C9_Witness ==
    /\ input.kind = "token"
    /\ input.index = 3
    /\ input.token = <<"k", "q", "K", "Q">>
    /\ pc = "rejected"
    /\ parsed = Err

(***************************************************************************)
(* Properties of the pawn pushes and the en passant captures.              *)
(***************************************************************************)
\* the square n steps ahead of a pawn of color on sq (sq not on the last n ranks)
Ahead(color, sq, n) == IF color = White THEN sq + n * NUM_FILES ELSE sq - n * NUM_FILES

\* the list holds a ply from source to target
Emitted(source, target) ==
    \E i \in 1 .. Len(move_list) :
        move_list[i].source = source /\ move_list[i].target = target

\* the position after the pawn on source moved to the empty square target is legal
PushIsLegal(source, target) ==
    is_legal(PositionMakeMove(board.position,
        Ply(source, target, Pawn, None,
            IF GetRank(target) \in {0, NUM_RANKS - 1} THEN Queen ELSE None)))

\* C11: a double push is in the list iff the source holds a pawn of the mover on its
\* starting rank, the two squares ahead are empty and the position after it is
\* legal, whether or not the single push is legal; a single push is in the list
\* iff the square ahead is empty and the position after it is legal.
C11_PawnPushes ==
    pc = "generated" =>
        LET color == board.position.color_to_move
            occupancies == GetOccupancies(board.position)
        IN  \A source \in board.position.pieces[color][Pawn] :
                /\ Emitted(source, Ahead(color, source, 1))
                     <=> (/\ Ahead(color, source, 1) \notin occupancies
                          /\ PushIsLegal(source, Ahead(color, source, 1)))
                /\ GetRank(source) = (IF color = White THEN 1 ELSE 6)
                     => (Emitted(source, Ahead(color, source, 2))
                           <=> (/\ Ahead(color, source, 1) \notin occupancies
                                /\ Ahead(color, source, 2) \notin occupancies
                                /\ PushIsLegal(source, Ahead(color, source, 2))))
                /\ GetRank(source) # (IF color = White THEN 1 ELSE 6)
                     => \A i \in 1 .. Len(move_list) :
                            move_list[i].source = source
                                => Abs(GetRank(move_list[i].target) - GetRank(source)) = 1

\* the double push of a pawn is in the list and its single push, onto an empty
\* square, is not
C11_Witness ==
    /\ pc = "generated"
    /\ \E source \in board.position.pieces[board.position.color_to_move][Pawn] :
        LET color == board.position.color_to_move
        IN  /\ Emitted(source, Ahead(color, source, 2))
            /\ Ahead(color, source, 1) \notin GetOccupancies(board.position)
            /\ ~Emitted(source, Ahead(color, source, 1))

\* the plies of the list that capture onto an empty square
EnPassantPlies ==
    SelectSeq(move_list,
              LAMBDA m : m.captured_piece # None
                         /\ m.target \notin GetOccupancies(board.position))

\* the en passant capture from the file df beside the target, if it is to be emitted
ExpectedEnPassant(df) ==
    LET color == board.position.color_to_move
        target == board.position.en_passant
        file == GetFile(target) + df
        source == FromFileRank(file, IF color = White THEN 4 ELSE 3)
        ply == Ply(source, target, Pawn, Pawn, None)
    IN  IF /\ file \in 0 .. NUM_FILES - 1
           /\ source \in board.position.pieces[color][Pawn]
           /\ is_legal(PositionMakeMove(board.position, ply))
        THEN <<ply>> ELSE <<>>

\* C12: without an en passant square no en passant capture is emitted; with one, the
\* captures emitted are, in this order, the one from the file left of it and the
\* one from the file right of it, each a pawn takes pawn ply without promotion from
\* the mover's fifth rank, present iff a pawn of the mover stands there and the
\* position after the capture is legal; files a and h are not neighbours.
C12_EnPassantCaptures ==
    pc = "generated" =>
        IF board.position.en_passant = NoSquare
        THEN EnPassantPlies = <<>>
        ELSE EnPassantPlies = ExpectedEnPassant(-1) \o ExpectedEnPassant(1)

\* the target is on file a or h, a pawn of the mover stands on the far edge file of
\* the fifth rank, and one capture, from the neighbouring file, is in the list
C12_Witness ==
    /\ pc = "generated"
    /\ board.position.en_passant # NoSquare
    /\ LET color == board.position.color_to_move
           file == GetFile(board.position.en_passant)
       IN  /\ file \in {0, NUM_FILES - 1}
           /\ FromFileRank(NUM_FILES - 1 - file, IF color = White THEN 4 ELSE 3)
                  \in board.position.pieces[color][Pawn]
    /\ Len(EnPassantPlies) = 1

(***************************************************************************)
(* MoveList (move_gen/move_list.rs): the moves are kept encoded.           *)
(***************************************************************************)
\* ArrayVec<u32, 255>
ListCapacity == 255

\* the tag of an absent captured or promotion piece
NullTag == 8

OptionIndex(piece) == IF piece = None THEN NullTag ELSE PieceIndex(piece) - 1
OptionFromIndex(i) == IF i >= NullTag THEN None ELSE PieceFromIndex(i)

\* Ply::encode: source in 6 bits, target in 6, piece in 3, captured piece in 4 and
\* promotion piece in 4, from the lowest bit up
PlyEncode(ply) ==
    ply.source + 64 * ply.target + 4096 * (PieceIndex(ply.piece) - 1)
    + 32768 * OptionIndex(ply.captured_piece) + 524288 * OptionIndex(ply.promotion_piece)

\* Ply::decode
PlyDecode(encoded_ply) ==
    Ply(encoded_ply % 64,
        (encoded_ply \div 64) % 64,
        PieceFromIndex((encoded_ply \div 4096) % 8),
        OptionFromIndex((encoded_ply \div 32768) % 16),
        OptionFromIndex((encoded_ply \div 524288) % 16))

\* a push that leaves a full list as it is
MoveListPushDropping(moves, ply) ==
    IF Len(moves) >= ListCapacity THEN Ok(moves) ELSE Ok(Append(moves, PlyEncode(ply)))

\* MoveList::push: ArrayVec::push panics on a full vector
MoveListPush(moves, ply) ==
    IF Len(moves) >= ListCapacity THEN Panic ELSE Ok(Append(moves, PlyEncode(ply)))

\* MoveList::get(index)
MoveListGet(moves, index) == PlyDecode(moves[index + 1])

\* MoveList::len: self.moves.len() as u8
MoveListLen(moves) == Len(moves) % 256

\* the number of pushes whose ply is chosen freely; later pushes repeat the plies in turn
MaxChosenPushes == 2

\* Ra1-a2, Rh8xa8 (rook takes rook), g7xh8=N (pawn takes queen and promotes)
ListPlies ==
    <<Ply(0, 8, Rook, None, None),
      Ply(63, 56, Rook, Rook, None),
      Ply(54, 63, Pawn, Queen, Knight)>>

InitList ==
    /\ fen = <<>>
    /\ input = [NoInput EXCEPT !.kind = "list"]
    /\ parsed = NotParsed
    /\ board = EmptyBoard
    /\ board_history = <<>>
    /\ move_list = <<>>
    /\ played = <<>>
    /\ last = [op |-> "default"]
    /\ pc = "ready"
    /\ search = SearchNew
    /\ channel = ChannelNew

\* move_list.push(ply); played keeps the plies of the pushes that returned
ListPush ==
    /\ pc = "ready"
    /\ \E n \in 1 .. Len(ListPlies) :
        /\ Len(played) >= MaxChosenPushes => n = (Len(played) % Len(ListPlies)) + 1
        /\ LET pushed == MoveListPush(move_list, ListPlies[n])
           IN  /\ last' = [op |-> "push", ply |-> ListPlies[n]]
               /\ IF pushed.ok
                  THEN /\ move_list' = pushed.val
                       /\ played' = Append(played, ListPlies[n])
                       /\ pc' = "ready"
                  ELSE /\ pc' = "panicked"
                       /\ UNCHANGED <<move_list, played>>
    /\ UNCHANGED <<search, channel, input, fen, parsed, board, board_history>>

\* move_list.get(index) for the first and the last index
ListGet ==
    /\ pc = "ready"
    /\ move_list # <<>>
    /\ \E index \in {0, MoveListLen(move_list) - 1} :
        last' = [op |-> "get", index |-> index, ply |-> MoveListGet(move_list, index)]
    /\ UNCHANGED <<search, channel, input, fen, parsed, board, board_history, move_list, played, pc>>

\* move_list.len()
ListLen ==
    /\ pc = "ready"
    /\ last' = [op |-> "len", len |-> MoveListLen(move_list)]
    /\ UNCHANGED <<search, channel, input, fen, parsed, board, board_history, move_list, played, pc>>

NextList == ListPush \/ ListGet \/ ListLen

SpecList == InitList /\ [][NextList]_vars

\* C13: len() is the number of pushes that returned and is at most 255, get(i) is
\* the i-th pushed ply, a push that returned added its ply at the end, and a push
\* onto a list of 255 moves panics and leaves no 256th move.
C13_MoveListBounded ==
    /\ Len(move_list) = Len(played)
    /\ Len(played) <= 255
    /\ last.op = "len" => (last.len = Len(played) /\ last.len <= 255)
    /\ last.op = "get" => last.ply = played[last.index + 1]
    /\ (last.op = "push" /\ pc = "ready") => MoveListGet(move_list, Len(played) - 1) = last.ply
    /\ pc = "panicked" => (last.op = "push" /\ Len(played) = 255)

\* the push onto a list of 255 moves panicked
C13_Witness ==
    /\ pc = "panicked"
    /\ last.op = "push"
    /\ Len(move_list) = 255
    /\ MoveListGet(move_list, 254) = played[255]

(***************************************************************************)
(* MoveList::sort.                                                         *)
(***************************************************************************)
\* Ply::score: a capture scores by most valuable victim, then least valuable
\* attacker (pawn takes pawn 105, king takes pawn 100, pawn takes queen 505), any
\* other ply scores 0
PlyScore(ply) ==
    IF ply.captured_piece = None THEN 0
    ELSE 100 * PieceIndex(ply.captured_piece) + 6 - PieceIndex(ply.piece)

\* the sort key with the history bonus added to captures too
SortScoreAllMoves(ply, search_info, ply_index) ==
    PlyScore(ply)
    + (IF search_info.killer_moves[0][ply_index] = ply /\ ply.captured_piece = None THEN 70
       ELSE IF search_info.killer_moves[1][ply_index] = ply /\ ply.captured_piece = None
       THEN 50
       ELSE search_info.history_moves[PieceIndex(ply.piece) - 1][ply.target])
    + (IF search_info.follow_pv /\ ply = search_info.pv_table[0][ply_index]
       THEN 1000000 ELSE 0)

\* the score the closure of sort computes for a ply (the closure returns Reverse(score))
SortScore(ply, search_info, ply_index) ==
    PlyScore(ply)
    + (IF ply.captured_piece = None
       THEN IF search_info.killer_moves[0][ply_index] = ply THEN 70
            ELSE IF search_info.killer_moves[1][ply_index] = ply THEN 50
            ELSE search_info.history_moves[PieceIndex(ply.piece) - 1][ply.target]
       ELSE 0)
    + (IF search_info.follow_pv /\ ply = search_info.pv_table[0][ply_index]
       THEN 1000000 ELSE 0)

RECURSIVE InsertByScore(_, _, _, _)
\* encoded_ply put behind every move of sorted whose score is not lower
InsertByScore(sorted, encoded_ply, search_info, ply_index) ==
    IF sorted = <<>> THEN <<encoded_ply>>
    ELSE IF SortScore(PlyDecode(Head(sorted)), search_info, ply_index)
              >= SortScore(PlyDecode(encoded_ply), search_info, ply_index)
    THEN <<Head(sorted)>> \o InsertByScore(Tail(sorted), encoded_ply, search_info, ply_index)
    ELSE <<encoded_ply>> \o sorted

RECURSIVE SortByKey(_, _, _, _)
\* slice::sort_by_key with key Reverse(score): stable, highest score first; n is the
\* number of moves taken from the front
SortByKey(moves, n, search_info, ply_index) ==
    IF n = 0 THEN <<>>
    ELSE InsertByScore(SortByKey(moves, n - 1, search_info, ply_index), moves[n],
                       search_info, ply_index)

\* contains_pv after the sort: the closure runs for every move of a list that needs
\* a comparison, and for none of a list of fewer than two moves
ContainsPv(moves, search_info, ply_index) ==
    /\ Len(moves) >= 2
    /\ search_info.follow_pv
    /\ \E i \in 1 .. Len(moves) : PlyDecode(moves[i]) = search_info.pv_table[0][ply_index]

\* MoveList::sort(search_info, ply_index): the sorted moves and the search_info left
MoveListSort(moves, search_info, ply_index) ==
    [moves |-> SortByKey(moves, Len(moves), search_info, ply_index),
     search_info |->
        IF ContainsPv(moves, search_info, ply_index) THEN search_info
        ELSE [search_info EXCEPT !.follow_pv = FALSE]]

\* the longest list sorted
MaxSortLen == 3

\* Ra1-a2, Ng1-f3, Rh8xa8 (rook takes rook), e4xd5 (pawn takes pawn),
\* g7xh8=N (pawn takes queen and promotes)
SortPlies ==
    {Ply(0, 8, Rook, None, None),
     Ply(6, 21, Knight, None, None),
     Ply(63, 56, Rook, Rook, None),
     Ply(28, 35, Pawn, Pawn, None),
     Ply(54, 63, Pawn, Queen, Knight)}

\* the lists of up to MaxSortLen different plies
SortLists ==
    UNION {{q \in [1 .. n -> SortPlies] : \A i, j \in 1 .. n : i # j => q[i] # q[j]} :
             n \in 0 .. MaxSortLen}

\* killer moves are quiet moves, or the null move of a slot never written
KillerPairs ==
    {<<PlyDefault, PlyDefault>>,
     <<Ply(0, 8, Rook, None, None), PlyDefault>>,
     <<Ply(6, 21, Knight, None, None), Ply(0, 8, Rook, None, None)>>}

\* the bonus of the move of the principal variation
PvBonus == 1000000

\* history tables: untouched, or with scores for rook to a2, rook to a8, knight to f3,
\* or with a score above the bonus of the principal variation for rook to a2
HistoryTables ==
    {SearchInfoDefault.history_moves,
     [SearchInfoDefault.history_moves EXCEPT ![3][8] = 30, ![3][56] = 120, ![1][21] = 80],
     [SearchInfoDefault.history_moves EXCEPT ![3][8] = PvBonus + 1]}

\* pv_table[0][ply_index]: the null move, a quiet move or a capture
PvMoves == {PlyDefault, Ply(6, 21, Knight, None, None), Ply(63, 56, Rook, Rook, None)}

SortSearchInfos(ply_index) ==
    {[SearchInfoDefault EXCEPT !.killer_moves[0][ply_index] = killers[1],
                               !.killer_moves[1][ply_index] = killers[2],
                               !.history_moves = history,
                               !.pv_table[0][ply_index] = pv,
                               !.follow_pv = follow_pv] :
        killers \in KillerPairs, history \in HistoryTables, pv \in PvMoves,
        follow_pv \in BOOLEAN}

\* the encoded moves of a list of plies
EncodeAll(plies) == [i \in 1 .. Len(plies) |-> PlyEncode(plies[i])]

InitSort ==
    /\ fen = <<>>
    /\ \E ply_index \in {0, MaxPlyIndex} :
        /\ input = [NoInput EXCEPT !.kind = "sort", !.index = ply_index]
        /\ \E search_info \in SortSearchInfos(ply_index) :
            search = [SearchNew EXCEPT !.search_info = search_info]
    /\ parsed = NotParsed
    /\ board = EmptyBoard
    /\ board_history = <<>>
    /\ played \in SortLists
    /\ move_list = EncodeAll(played)
    /\ last = [op |-> "default"]
    /\ pc = "ready"
    /\ channel = ChannelNew

\* move_list.sort(&mut search_info, ply_index); last keeps search_info as it was
ListSort ==
    /\ pc = "ready"
    /\ LET sorted == MoveListSort(move_list, search.search_info, input.index)
       IN  /\ move_list' = sorted.moves
           /\ search' = [search EXCEPT !.search_info = sorted.search_info]
    /\ last' = [op |-> "sort", search_info |-> search.search_info]
    /\ pc' = "sorted"
    /\ UNCHANGED <<channel, input, fen, parsed, board, board_history, played>>

NextSort == ListSort

SpecSort == InitSort /\ [][NextSort]_vars

IsQuiet(ply) == ply.captured_piece = None

\* the score of a ply as the ordering rule states it, for the tables of info
OrderingScore(ply, info, ply_index) ==
    (IF ~IsQuiet(ply) THEN 100 * PieceIndex(ply.captured_piece) + 6 - PieceIndex(ply.piece)
     ELSE IF ply = info.killer_moves[0][ply_index] THEN 70
     ELSE IF ply = info.killer_moves[1][ply_index] THEN 50
     ELSE info.history_moves[PieceIndex(ply.piece) - 1][ply.target])
    + (IF info.follow_pv /\ ply = info.pv_table[0][ply_index] THEN 1000000 ELSE 0)

\* the sorted list holds the plies of the list sorted, by descending ordering score
SortedByOrderingScore ==
    /\ Len(move_list) = Len(played)
    /\ {PlyDecode(move_list[i]) : i \in 1 .. Len(move_list)}
         = {played[i] : i \in 1 .. Len(played)}
    /\ \A i, j \in 1 .. Len(move_list) :
         i < j => OrderingScore(PlyDecode(move_list[i]), last.search_info, input.index)
                    >= OrderingScore(PlyDecode(move_list[j]), last.search_info, input.index)

CapturesFirst ==
    \A i, j \in 1 .. Len(move_list) :
        (~IsQuiet(PlyDecode(move_list[i])) /\ IsQuiet(PlyDecode(move_list[j]))) => i < j

EmptyKillerAndHistory(info, ply_index) ==
    /\ info.killer_moves[0][ply_index] = PlyDefault
    /\ info.killer_moves[1][ply_index] = PlyDefault
    /\ info.history_moves = SearchInfoDefault.history_moves

\* the move of the principal variation gets its bonus in this list
PvBoosted(info, ply_index) ==
    info.follow_pv /\ \E i \in 1 .. Len(played) : played[i] = info.pv_table[0][ply_index]

\* C14 as stated: the list is sorted by descending score, a quiet move scoring 70 as
\* first killer, else 50 as second killer, else its history score, a capture its
\* MVV-LVA score; with empty killer and history tables every capture precedes every
\* quiet move.
C14_CapturesFirstWithEmptyTables ==
    pc = "sorted" =>
        /\ SortedByOrderingScore
        /\ EmptyKillerAndHistory(last.search_info, input.index) => CapturesFirst

\* C14: the list is sorted by descending score, a quiet move scoring 70 as first
\* killer, else 50 as second killer, else its history score, a capture its MVV-LVA
\* score whatever the killer and history tables hold; with empty killer and history
\* tables and no move of the list boosted as the move of the principal variation,
\* every capture precedes every quiet move.
C14_SortOrder ==
    pc = "sorted" =>
        /\ SortedByOrderingScore
        /\ (/\ EmptyKillerAndHistory(last.search_info, input.index)
            /\ ~PvBoosted(last.search_info, input.index)) => CapturesFirst

\* a list with a capture and a quiet move was sorted with a history score for the
\* capture's piece and target, and with a killer among the quiet moves
C14_Witness ==
    /\ pc = "sorted"
    /\ Len(move_list) = MaxSortLen
    /\ \E i, j \in 1 .. Len(move_list) :
        LET c == PlyDecode(move_list[i])
            q == PlyDecode(move_list[j])
        IN  /\ ~IsQuiet(c)
            /\ last.search_info.history_moves[PieceIndex(c.piece) - 1][c.target] > 0
            /\ q = last.search_info.killer_moves[0][input.index]
            /\ i < j

\* C15: after sort, follow_pv is true iff it was true before and the list holds the
\* move pv_table[0][ply], for lists of every length.
C15_FollowPv ==
    pc = "sorted" =>
        (search.search_info.follow_pv
           <=> (/\ last.search_info.follow_pv
                /\ \E i \in 1 .. Len(played) :
                     played[i] = last.search_info.pv_table[0][input.index]))

(***************************************************************************)
(* The search thread (search.rs): Search::run receives the commands of the *)
(* driver one after the other and handles each before it receives the      *)
(* next.  Search::iterative_search and Search::perft follow the            *)
(* specification's description of the search.  A command carries its       *)
(* number in the order of sending and the number of the command that was   *)
(* being handled when it was sent (0 if none), and a message the number of *)
(* the command that sent it; the program has none of these.                *)
(***************************************************************************)
\* the most commands the driver sends
MaxCommands == 2
\* the deepest search and perft asked for
MaxDepth == 2

\* white is in check and has two legal moves, Ka1-b1 and a2xb3
FenTwoMoves == <<"8","/","8","/","8","/","8","/","8","/","1","n","k","5","/","P","7","/","K","7"," ","w"," ","-"," ","-"," ","0"," ","1">>
\* white is in check and has one legal move, a2xb3
FenOneMove == <<"8","/","8","/","8","/","8","/","8","/","1","n","6","/","P","1","k","5","/","K","7"," ","w"," ","-"," ","-"," ","0"," ","1">>
\* black to move is stalemated
FenStalemate == <<"k","7","/","P","7","/","K","7","/","8","/","8","/","8","/","8","/","8"," ","b"," ","-"," ","-"," ","0"," ","1">>
\* black to move is checkmated
FenCheckmate == <<"k","7","/","1","P","1","N","4","/","1","K","6","/","8","/","8","/","8","/","8","/","8"," ","b"," ","-"," ","-"," ","0"," ","1">>

\* the positions of the SearchDepth commands, and of the SearchTime commands
SearchBoards == {from_fen(f).val : f \in {FenTwoMoves, FenStalemate}}
TimedBoards == {from_fen(f).val : f \in {FenOneMove, FenCheckmate}}

\* move_gen::generate_moves for a position of pawns, knights and kings without
\* castling rights
generate_moves(position) ==
    generate_step_moves(position, King,
        generate_step_moves(position, Knight,
            generate_pawn_moves(position, <<>>)))

\* two mutations of MoveList::is_empty
MoveListIsEmptyNever(moves) == FALSE
MoveListIsEmptyAlways(moves) == TRUE

\* MoveList::is_empty
MoveListIsEmpty(moves) == Len(moves) = 0

\* the commands the driver sends; the time of a SearchTime is in milliseconds
SearchCommands(id) ==
    {[type |-> "SearchDepth", id |-> id, during |-> 0, board |-> b, arg |-> MaxDepth] :
        b \in SearchBoards}
    \cup {[type |-> "SearchTime", id |-> id, during |-> 0, board |-> b, arg |-> 1000] :
        b \in TimedBoards}
    \cup {[type |-> "Perft", id |-> id, during |-> 0, board |-> from_fen(FenTwoMoves).val,
           arg |-> 1]}
    \cup {[type |-> "Stop", id |-> id, during |-> 0, board |-> EmptyBoard, arg |-> 0]}

IsSearchCommand(command) == command.type \in {"SearchTime", "SearchDepth"}

PromotionChars == <<"", "n", "b", "r", "q", "">>

\* a ply in long algebraic notation
PlyToUci(ply) ==
    SquareToString(ply.source) \o SquareToString(ply.target)
    \o (IF ply.promotion_piece = None THEN <<>>
        ELSE <<PromotionChars[PieceIndex(ply.promotion_piece)]>>)

\* the lines the search sends
NoLegalMovesMessage(id) ==
    [id |-> id, kind |-> "info string no legal moves", depth |-> 0, uci |-> <<>>]
InfoMessage(id, depth, ply) ==
    [id |-> id, kind |-> "info depth", depth |-> depth, uci |-> PlyToUci(ply)]
BestMoveMessage(id, ply) ==
    [id |-> id, kind |-> "bestmove", depth |-> 0, uci |-> PlyToUci(ply)]
PerftMessage(id, ply, count) ==
    [id |-> id, kind |-> "perft", depth |-> count, uci |-> PlyToUci(ply)]
PerftTotalMessage(id, count) ==
    [id |-> id, kind |-> "perft total", depth |-> count, uci |-> <<>>]

\* a mutation of Receive: the newest command is taken
ReceiveNewest(commands) ==
    [command |-> commands[Len(commands)], rest |-> SubSeq(commands, 1, Len(commands) - 1)]

\* command_receiver.recv() on a channel that holds a command
Receive(commands) == [command |-> Head(commands), rest |-> Tail(commands)]

\* a mutation of send_output: the message is queued whether or not it can be received
send_output_unchecked(ch, output) == [ch EXCEPT !.messages = Append(@, output)]

\* self.message_sender.send(Message::SearchMessage(output)): nothing is sent once
\* the receiver is dropped
send_output(ch, output) ==
    IF ch.receiver_dropped THEN ch ELSE [ch EXCEPT !.messages = Append(@, output)]

\* where the thread is after send_output: it panics when the send has failed
AfterSend(ch, next) == IF ch.receiver_dropped THEN "panicked" ELSE next

RECURSIVE perft(_, _), perft_sum(_, _, _)
\* the sum of perft over the positions the moves lead to
perft_sum(position, moves, depth) ==
    IF moves = <<>> THEN 0
    ELSE perft(PositionMakeMove(position, Head(moves)), depth)
         + perft_sum(position, Tail(moves), depth)

perft(position, depth) ==
    IF depth = 0 THEN 1 ELSE perft_sum(position, generate_moves(position), depth - 1)

\* nothing is being handled
Idle == [kind |-> "idle", id |-> 0, board |-> EmptyBoard, depth_limit |-> 0,
         timed |-> FALSE, depth |-> 0, best |-> PlyDefault]

InitSearch ==
    /\ fen = <<>>
    /\ input = Idle
    /\ parsed = NotParsed
    /\ board = EmptyBoard
    /\ board_history = <<>>
    /\ move_list = <<>>
    /\ played = <<>>
    /\ last = [op |-> "default"]
    /\ pc = "waiting"
    /\ search = SearchNew
    /\ channel = ChannelNew

\* the number of commands sent so far
Sent == Len(played) + Len(channel.commands)

\* the driver sends a command
DriverSend ==
    /\ ~channel.closed
    /\ Sent < MaxCommands
    /\ \E command \in SearchCommands(Sent + 1) :
        channel' = [channel EXCEPT !.commands =
                      Append(@, [command EXCEPT !.during =
                                   IF pc \in {"searching", "perft"} THEN input.id ELSE 0])]
    /\ UNCHANGED <<search, input, fen, parsed, board, board_history, move_list, played,
                   last, pc>>

\* the driver drops its sender
DriverDrop ==
    /\ ~channel.closed
    /\ channel' = [channel EXCEPT !.closed = TRUE]
    /\ UNCHANGED <<search, input, fen, parsed, board, board_history, move_list, played,
                   last, pc>>

\* recv() fails once the sender is gone and the channel is empty: run returns
RunReturns ==
    /\ pc = "waiting"
    /\ channel.closed
    /\ channel.commands = <<>>
    /\ pc' = "returned"
    /\ UNCHANGED <<search, channel, input, fen, parsed, board, board_history, move_list,
                   played, last>>

\* run receives Stop: _other => {}
RecvStop ==
    /\ pc = "waiting"
    /\ channel.commands # <<>>
    /\ LET received == Receive(channel.commands)
       IN  /\ received.command.type = "Stop"
           /\ channel' = [channel EXCEPT !.commands = received.rest]
           /\ played' = Append(played, received.command)
    /\ last' = [op |-> "recv", search |-> search]
    /\ UNCHANGED <<search, input, fen, parsed, board, board_history, move_list, pc>>

\* run receives Perft: handle_perft starts perft
RecvPerft ==
    /\ pc = "waiting"
    /\ channel.commands # <<>>
    /\ LET received == Receive(channel.commands)
       IN  /\ received.command.type = "Perft"
           /\ channel' = [channel EXCEPT !.commands = received.rest]
           /\ played' = Append(played, received.command)
           /\ input' = [Idle EXCEPT !.kind = "perft", !.id = received.command.id,
                                    !.board = received.command.board,
                                    !.depth_limit = received.command.arg]
    /\ last' = [op |-> "recv", search |-> search]
    /\ pc' = "perft"
    /\ UNCHANGED <<search, fen, parsed, board, board_history, move_list>>

RECURSIVE PerftLines(_, _, _, _)
PerftLines(id, position, moves, depth) ==
    IF moves = <<>> THEN <<>>
    ELSE <<PerftMessage(id, Head(moves),
                        perft(PositionMakeMove(position, Head(moves)), depth - 1))>>
         \o PerftLines(id, position, Tail(moves), depth)

RECURSIVE send_lines(_, _)
\* send_output for every line, one after the other
send_lines(ch, lines) ==
    IF lines = <<>> THEN ch ELSE send_lines(send_output(ch, Head(lines)), Tail(lines))

\* perft emits the count of every move, then the total
PerftFinish ==
    /\ pc = "perft"
    /\ LET position == input.board.position
           lines == PerftLines(input.id, position, generate_moves(position),
                               input.depth_limit)
                    \o <<PerftTotalMessage(input.id, perft(position, input.depth_limit))>>
       IN  channel' = send_lines(channel, lines)
    /\ input' = Idle
    /\ pc' = AfterSend(channel, "waiting")
    /\ UNCHANGED <<search, fen, parsed, board, board_history, move_list, played, last>>

\* run receives SearchTime or SearchDepth: handle_search generates the moves and
\* either reports that there is no legal move, or enters iterative_search, which
\* starts the clock and clears stop
RecvSearch ==
    /\ pc = "waiting"
    /\ channel.commands # <<>>
    /\ LET received == Receive(channel.commands)
           command == received.command
       IN  /\ IsSearchCommand(command)
           /\ played' = Append(played, command)
           /\ move_list' = generate_moves(command.board.position)
           /\ IF MoveListIsEmpty(move_list')
              THEN /\ channel' = send_output([channel EXCEPT !.commands = received.rest],
                                             NoLegalMovesMessage(command.id))
                   /\ pc' = AfterSend(channel, pc)
                   /\ UNCHANGED <<search, input>>
              ELSE /\ channel' = [channel EXCEPT !.commands = received.rest]
                   /\ input' = [Idle EXCEPT
                                  !.kind = "search", !.id = command.id,
                                  !.board = command.board,
                                  !.depth_limit = IF command.type = "SearchDepth"
                                                  THEN command.arg ELSE MAX_PLY,
                                  !.timed = (command.type = "SearchTime")]
                   /\ search' = [search EXCEPT !.total_time = "Some", !.stop = FALSE]
                   /\ pc' = "searching"
    /\ last' = [op |-> "recv", search |-> search]
    /\ UNCHANGED <<fen, parsed, board, board_history>>

\* a mutation of clear_iteration: the pv table is cleared as well
clear_iteration_and_pv(search_info) ==
    [search_info EXCEPT !.node_count = 0,
                        !.pv_length = [i \in PlyIndexes |-> 0],
                        !.pv_table = SearchInfoDefault.pv_table,
                        !.follow_pv = TRUE]

\* SearchInfo::clear_iteration
clear_iteration(search_info) ==
    [search_info EXCEPT !.node_count = 0,
                        !.pv_length = [i \in PlyIndexes |-> 0],
                        !.follow_pv = TRUE]

\* the search goes on to the next depth
IterationDue == ~search.stop /\ input.depth < input.depth_limit /\ input.depth < MaxDepth

\* one iteration of iterative_search.  Every node checks the clock only: either the
\* time limit of a SearchTime passes and stop is set, the nodes that return after it
\* leaving a move of theirs at the head of the pv table, or the iteration completes
\* with a legal first move of the principal variation, whose choice rests on the
\* evaluation, and its info line is sent.  The default limit of 72 hours does not pass.
Iterate ==
    /\ pc = "searching"
    /\ IterationDue
    /\ LET info == clear_iteration(search.search_info)
       IN  \/ /\ input.timed
              /\ \E partial \in SeqRange(move_list) :
                    search' = [search EXCEPT
                                 !.search_info = [info EXCEPT !.pv_table[0][0] = partial],
                                 !.stop = TRUE]
              /\ UNCHANGED <<channel, input, pc>>
           \/ \E ply \in SeqRange(move_list) :
                /\ search' = [search EXCEPT !.search_info =
                                [info EXCEPT !.node_count = input.depth + 1,
                                             !.pv_length[0] = 1,
                                             !.pv_table[0][0] = ply]]
                /\ channel' = send_output(channel,
                                          InfoMessage(input.id, input.depth + 1, ply))
                /\ input' = [input EXCEPT !.depth = @ + 1, !.best = ply]
                /\ pc' = AfterSend(channel, pc)
    /\ UNCHANGED <<fen, parsed, board, board_history, move_list, played, last>>

\* a mutation of best_move: the move at the head of the pv table
pv_head_move(searching, search_info) == search_info.pv_table[0][0]

\* the move iterative_search reports: the first move of the principal variation of
\* the last iteration that was completed
best_move(searching, search_info) == searching.best

\* iterative_search ends: the best move of the last completed iteration is sent, and
\* handle_search returns
BestMove ==
    /\ pc = "searching"
    /\ ~IterationDue
    /\ channel' = send_output(channel,
                              BestMoveMessage(input.id, best_move(input, search.search_info)))
    /\ input' = Idle
    /\ move_list' = <<>>
    /\ pc' = AfterSend(channel, "waiting")
    /\ UNCHANGED <<search, fen, parsed, board, board_history, played, last>>

NextSearch ==
    \/ DriverSend
    \/ DriverDrop
    \/ RunReturns
    \/ RecvStop
    \/ RecvPerft
    \/ PerftFinish
    \/ RecvSearch
    \/ Iterate
    \/ BestMove

SpecSearch == InitSearch /\ [][NextSearch]_vars

\* the driver drops the receiver of the messages
DriverDropReceiver ==
    /\ ~channel.receiver_dropped
    /\ channel' = [channel EXCEPT !.receiver_dropped = TRUE]
    /\ UNCHANGED <<search, input, fen, parsed, board, board_history, move_list, played,
                   last, pc>>

\* the driver sends a SearchTime command for a position with two legal moves
DriverSendTimed ==
    /\ ~channel.closed
    /\ Sent < MaxCommands
    /\ channel' = [channel EXCEPT !.commands =
                      Append(@, [type |-> "SearchTime", id |-> Sent + 1,
                                 during |-> IF pc = "searching" THEN input.id ELSE 0,
                                 board |-> from_fen(FenTwoMoves).val, arg |-> 1000])]
    /\ UNCHANGED <<search, input, fen, parsed, board, board_history, move_list, played,
                   last, pc>>

\* the search thread and a driver that sends searches with a time limit only and
\* keeps both channels open
NextTimed ==
    \/ DriverSendTimed
    \/ RecvSearch
    \/ Iterate
    \/ BestMove

SpecTimed == InitSearch /\ [][NextTimed]_vars

SpecTimedFair == SpecTimed /\ WF_vars(Iterate) /\ WF_vars(BestMove)

\* the search thread and a driver that may drop either end it holds
NextChannel == NextSearch \/ DriverDropReceiver

SpecChannel == InitSearch /\ [][NextChannel]_vars

\* inside iterative_search the thread never blocks: an iteration of bounded depth
\* ends, and after the last one the best move is sent
SpecSearchFair == SpecSearch /\ WF_vars(Iterate) /\ WF_vars(BestMove)

\* the messages of the command with the number id, in the order of sending
MessagesOf(id) == SelectSeq(channel.messages, LAMBDA m : m.id = id)

BestMovesOf(id) == SelectSeq(channel.messages, LAMBDA m : m.id = id /\ m.kind = "bestmove")

\* the command with the number id is being handled
Running(id) == pc \in {"searching", "perft"} /\ input.id = id

\* the positions commanded that have a legal move
MovableBoards ==
    {b \in SearchBoards \cup TimedBoards : Len(generate_moves(b.position)) > 0}

HasLegalMoves(command) == command.board \in MovableBoards

\* C16: the commands are received in the order of sending, the command being
\* handled is the latest one received, and no message of a command is sent after a
\* message of a later command.
C16_FifoOneAtATime ==
    /\ \A i \in 1 .. Len(played) : played[i].id = i
    /\ \A i \in 1 .. Len(channel.commands) : channel.commands[i].id = Len(played) + i
    /\ pc \in {"searching", "perft"} => input.id = Len(played)
    /\ \A i \in 1 .. Len(channel.messages) : channel.messages[i].id \in 1 .. Len(played)
    /\ \A i, j \in 1 .. Len(channel.messages) :
         i < j => channel.messages[i].id <= channel.messages[j].id

\* the second command is searching and has sent a message, after the first has sent
\* its best move
C16_Witness ==
    /\ pc = "searching"
    /\ input.id = 2
    /\ Len(BestMovesOf(1)) = 1
    /\ Len(MessagesOf(2)) > 0

\* a Stop that was sent while the command now being handled was being handled
StopPending ==
    \E i \in 1 .. Len(channel.commands) :
        /\ channel.commands[i].type = "Stop"
        /\ channel.commands[i].during = input.id

\* C17: once a Stop was sent while a search was being handled, the search, if due for
\* another iteration, does not complete it: its next step sets the stop flag.
C17_StopAborts ==
    [][(pc = "searching" /\ IterationDue /\ StopPending /\ search' # search)
         => search'.stop]_vars

\* C18 as stated: every SearchTime or SearchDepth command that was handled has sent
\* exactly one bestmove message, as its last message.
C18_OneBestMove ==
    \A i \in 1 .. Len(played) :
        (IsSearchCommand(played[i]) /\ ~Running(i)) =>
            /\ Len(BestMovesOf(i)) = 1
            /\ MessagesOf(i)[Len(MessagesOf(i))].kind = "bestmove"

BestMoveIsLast ==
    \A i \in 1 .. Len(played) :
        IsSearchCommand(played[i]) =>
            IF Running(i) \/ ~HasLegalMoves(played[i])
            THEN Len(BestMovesOf(i)) = 0
            ELSE /\ Len(BestMovesOf(i)) = 1
                 /\ MessagesOf(i)[Len(MessagesOf(i))].kind = "bestmove"

\* C18: every SearchTime or SearchDepth command on a position with a legal move
\* sends exactly one bestmove message, as its last message, and a search that
\* has started comes to its end; a command on a position without a legal move sends
\* no bestmove message.
C18_OneBestMoveWhenLegalMoves ==
    /\ []BestMoveIsLast
    /\ (pc = "searching") ~> (pc = "waiting")

\* a search has sent the info line of every depth and then its best move
C18_Witness ==
    \E i \in 1 .. Len(played) :
        /\ IsSearchCommand(played[i])
        /\ ~Running(i)
        /\ Len(MessagesOf(i)) > MaxDepth
        /\ MessagesOf(i)[1].kind = "info depth"
        /\ MessagesOf(i)[Len(MessagesOf(i))].kind = "bestmove"

\* C19: a SearchTime or SearchDepth command on a position without a legal move
\* sends the one message "info string no legal moves"; when it is the latest command
\* received, the thread is back at receiving commands (or run has returned because
\* the driver dropped its sender) with search_info and the stop flag as they were
\* before the command.
C19_NoLegalMoves ==
    \A i \in 1 .. Len(played) :
        (IsSearchCommand(played[i]) /\ ~HasLegalMoves(played[i])) =>
            /\ MessagesOf(i) = <<NoLegalMovesMessage(i)>>
            /\ i = Len(played) =>
                 /\ pc \in {"waiting", "returned"}
                 /\ search.search_info = last.search.search_info
                 /\ search.stop = last.search.stop

\* after a search of a position with a legal move, a command on a position without a
\* legal move was handled, and the command after it has been received and searches
C19_Witness ==
    /\ Len(played) = MaxCommands
    /\ Len(played) >= 2
    /\ LET i == Len(played) - 1
       IN  /\ IsSearchCommand(played[i])
           /\ ~HasLegalMoves(played[i])
           /\ MessagesOf(i) = <<NoLegalMovesMessage(i)>>
    /\ pc = "searching"

(***************************************************************************)
(* SearchInfo::clear_iteration and SearchInfo::clear_all (search.rs), on   *)
(* search information as a search leaves it.                               *)
(***************************************************************************)
\* SearchInfo::clear_all
clear_all(search_info) ==
    [clear_iteration(search_info) EXCEPT
        !.killer_moves = [k \in 0 .. 1 |-> [i \in PlyIndexes |-> PlyDefault]],
        !.history_moves = [p \in 0 .. 5 |-> [sq \in Squares |-> 0]]]

\* Re2-e8 and h7-h8, the moves of test_search_info_clear_iteration
TestPvPly == Ply(12, 60, Rook, None, None)
TestKillerMove == Ply(55, 63, Pawn, None, None)

\* search information with each field either as new or written by a search
UsedSearchInfos ==
    {[node_count |-> node_count,
      pv_length |-> [i \in PlyIndexes |-> IF i = 0 THEN pv_length ELSE 0],
      pv_table |-> [SearchInfoDefault.pv_table EXCEPT ![MaxPlyIndex][MaxPlyIndex] = pv],
      killer_moves |-> [SearchInfoDefault.killer_moves EXCEPT ![0][MaxPlyIndex] = killer],
      history_moves |-> [SearchInfoDefault.history_moves EXCEPT ![2][13] = history],
      follow_pv |-> follow_pv] :
        node_count \in {0, 50000}, pv_length \in {0, 5}, pv \in {PlyDefault, TestPvPly},
        killer \in {PlyDefault, TestKillerMove}, history \in {0, 40},
        follow_pv \in BOOLEAN}

InitInfo ==
    /\ fen = <<>>
    /\ input = [NoInput EXCEPT !.kind = "info"]
    /\ parsed = NotParsed
    /\ board = EmptyBoard
    /\ board_history = <<>>
    /\ move_list = <<>>
    /\ played = <<>>
    /\ last = [op |-> "default"]
    /\ pc = "ready"
    /\ \E search_info \in UsedSearchInfos :
        search = [SearchNew EXCEPT !.search_info = search_info]
    /\ channel = ChannelNew

\* search_info.clear_iteration(); last keeps search_info as it was
ClearIteration ==
    /\ pc = "ready"
    /\ search' = [search EXCEPT !.search_info = clear_iteration(@)]
    /\ last' = [op |-> "clear_iteration", search_info |-> search.search_info]
    /\ pc' = "cleared"
    /\ UNCHANGED <<channel, input, fen, parsed, board, board_history, move_list, played>>

\* search_info.clear_all(); last keeps search_info as it was
ClearAll ==
    /\ pc = "ready"
    /\ search' = [search EXCEPT !.search_info = clear_all(@)]
    /\ last' = [op |-> "clear_all", search_info |-> search.search_info]
    /\ pc' = "cleared"
    /\ UNCHANGED <<channel, input, fen, parsed, board, board_history, move_list, played>>

NextInfo == ClearIteration \/ ClearAll

SpecInfo == InitInfo /\ [][NextInfo]_vars

\* C24: clear_iteration sets node_count to 0, every pv_length entry to 0 and follow_pv
\* to true, and leaves pv_table, killer_moves and history_moves as they were.
C24_ClearIteration ==
    (pc = "cleared" /\ last.op = "clear_iteration") =>
        /\ search.search_info.node_count = 0
        /\ \A i \in PlyIndexes : search.search_info.pv_length[i] = 0
        /\ search.search_info.follow_pv
        /\ search.search_info.pv_table = last.search_info.pv_table
        /\ search.search_info.killer_moves = last.search_info.killer_moves
        /\ search.search_info.history_moves = last.search_info.history_moves

\* clear_iteration has run on search information whose every field a search had written
C24_Witness ==
    /\ pc = "cleared"
    /\ last.op = "clear_iteration"
    /\ last.search_info.node_count = 50000
    /\ last.search_info.pv_length[0] = 5
    /\ ~last.search_info.follow_pv
    /\ search.search_info.pv_table[MaxPlyIndex][MaxPlyIndex] = TestPvPly
    /\ search.search_info.killer_moves[0][MaxPlyIndex] = TestKillerMove
    /\ search.search_info.history_moves[2][13] = 40

\* C25: after clear_all the search information equals SearchInfo::default().
C25_ClearAllIsDefault ==
    (pc = "cleared" /\ last.op = "clear_all") => search.search_info = SearchInfoDefault

(***************************************************************************)
(* The move of the principal variation in MoveList::sort.                  *)
(***************************************************************************)
\* C29: if follow_pv is true and the list holds pv_table[0][ply], that move is first
\* in the sorted list, whatever the scores of the other moves are.
C29_PvMoveFirst ==
    (pc = "sorted" /\ PvBoosted(last.search_info, input.index)) =>
        PlyDecode(move_list[1]) = last.search_info.pv_table[0][input.index]

(***************************************************************************)
(* A game long enough for repetitions: the kings go to and fro between     *)
(* their squares and the neighbouring ones, and white may push a pawn.     *)
(* The history gets the hash of every position reached.                    *)
(***************************************************************************)
\* the most plies played
MaxGamePlies == 9

\* 4k3/8/8/8/8/8/P7/4K3 w - - 0 1
FenShuffle == <<"4","k","3","/","8","/","8","/","8","/","8","/","8","/","P","7","/","4","K","3"," ","w"," ","-"," ","-"," ","0"," ","1">>
\* the same position two plies before the fifty move rule applies
FenShuffleLate == <<"4","k","3","/","8","/","8","/","8","/","8","/","8","/","P","7","/","4","K","3"," ","w"," ","-"," ","-"," ","9","8"," ","6","0">>

\* d1, e1, d8, e8
ShuffleSquares == {3, 4, 59, 60}

\* the moves played: pawn moves, and king moves between the shuffle squares
ShuffleMoves(position) ==
    {ply \in SeqRange(generate_moves(position)) :
        ply.piece = Pawn \/ ply.target \in ShuffleSquares}

InitGame ==
    /\ fen \in {FenShuffle, FenShuffleLate}
    /\ input = [NoInput EXCEPT !.kind = "shuffle"]
    /\ parsed = from_fen(fen)
    /\ board = parsed.val
    /\ board_history = <<parsed.val.position.hash>>
    /\ move_list = <<>>
    /\ played = <<>>
    /\ last = NoCall
    /\ pc = "ready"
    /\ search = SearchNew
    /\ channel = ChannelNew

\* board.make_move(ply); the hash of the new position is appended to the history
GameMove ==
    /\ pc = "ready"
    /\ Len(played) < MaxGamePlies
    /\ \E ply \in ShuffleMoves(board.position) :
        /\ played' = Append(played, ply)
        /\ board' = BoardMakeMove(board, ply)
        /\ board_history' = Append(board_history, board'.position.hash)
    /\ last' = NoCall
    /\ UNCHANGED <<search, channel, input, fen, parsed, move_list, pc>>

NextGame == GameMove \/ IsDraw

SpecGame == InitGame /\ [][NextGame]_vars

\* the number of the last pawn move or capture played, 0 if there was none
LastIrreversible ==
    LET S == {i \in 1 .. Len(played) : HalfmoveResets(played[i])}
    IN  IF S = {} THEN 0 ELSE CHOOSE i \in S : \A j \in S : j <= i

\* the hashes of the positions reached since the last pawn move or capture, the
\* position that move led to included; the whole history if there was none
SinceIrreversible == SubSeq(board_history, LastIrreversible + 1, Len(board_history))

\* C30: in a game the entries is_draw examines, the newest halfmove_clock + 1, are the
\* positions reached since the last pawn move or capture, and below a clock of 100
\* the board is a draw iff the current position is among them at least 3 times.
C30_RepetitionsSinceIrreversible ==
    last.op = "is_draw" =>
        /\ ClockValue < 100 =>
             (LastIrreversible > 0 => ClockValue + 1 = Len(SinceIrreversible))
        /\ ClockValue < 100 =>
             (last.draw <=> Repetitions(SinceIrreversible, board.position.hash,
                                        Len(SinceIrreversible)) >= 3)
        /\ ClockValue >= 100 => last.draw

\* after a pawn move the position it led to has come back twice and is a draw, the
\* position before the pawn move having occurred as well
C30_Witness ==
    /\ last.op = "is_draw"
    /\ last.draw
    /\ ClockValue < 100
    /\ LastIrreversible > 0
    /\ Len(SinceIrreversible) = ClockValue + 1
    /\ SinceIrreversible[1] = board.position.hash

(***************************************************************************)
(* Search::quiescence_search (search/quiescence_search.rs).  The calls on  *)
(* the stack are kept as a sequence, the innermost last.  A call is at its *)
(* entry, in its loop over the captures, or done with a value to return.   *)
(* evaluation::evaluate is outside the specification: the static           *)
(* evaluation is any value of EvalValues.  The clock only goes forward:    *)
(* once a time check has seen the limit exceeded, every later one does.    *)
(***************************************************************************)
I32Min == -2147483647 - 1
I32Max == 2147483647

\* the negation of an i32, wrapping at i32::MIN
I32Neg(x) == IF x = I32Min THEN I32Min ELSE -x

\* the static evaluations of a position
EvalValues == {-100, 0, 100}

\* the windows quiescence_search is called with
QsWindows == {<<I32Min, I32Max>>, <<-50, 50>>}

\* the captures played below the first call that the tables are kept for
MaxCaptureDepth == 1

\* white has the captures e4xd5, e4xf5 and Nc3xd5, and black recaptures
\* 4k3/8/5n2/3p1p2/4P3/2N5/8/4K3 w - - 0 1
FenCaptures == <<"4","k","3","/","8","/","5","n","2","/","3","p","1","p","2","/","4","P","3","/","2","N","5","/","8","/","4","K","3"," ","w"," ","-"," ","-"," ","0"," ","1">>
\* white has the one capture e4xd5, black recaptures with the knight or the pawn
\* 4k3/8/2p2n2/3p4/4P3/8/8/4K3 w - - 0 1
FenOneCapture == <<"4","k","3","/","8","/","2","p","2","n","2","/","3","p","4","/","4","P","3","/","8","/","8","/","4","K","3"," ","w"," ","-"," ","-"," ","0"," ","1">>

QsPositions == {from_fen(f).val.position : f \in {FenCaptures, FenOneCapture}}

\* the ply indexes of the first call: the root of the search, and the last index
\* the tables of SearchInfo have
QsPlyIndexes == {0, MAX_PLY - 1}

\* the indexes of the tables that exist and that the calls below ply_index may read
KeptIndexes(ply_index) ==
    {i \in ply_index .. ply_index + MaxCaptureDepth : i < MAX_PLY}

\* Nc3xd5
QsPvMove == Ply(18, 35, Knight, Pawn, None)

\* the search information the first call finds: the row of the principal variation
\* and the killer moves at the kept indexes, with or without a move to follow
QsSearchInfos(ply_index) ==
    {[SearchInfoDefault EXCEPT
        !.pv_table = [i \in {0} |-> [j \in KeptIndexes(ply_index) |->
                         IF j = ply_index THEN pv ELSE PlyDefault]],
        !.killer_moves = [k \in 0 .. 1 |-> [j \in KeptIndexes(ply_index) |-> PlyDefault]],
        !.follow_pv = follow] :
        pv \in {PlyDefault, QsPvMove}, follow \in BOOLEAN}

\* a mutation of get_captures: the moves without a captured piece are kept
get_quiet_moves(moves) ==
    SelectSeq(moves, LAMBDA encoded_ply : PlyDecode(encoded_ply).captured_piece = None)

\* MoveList::get_captures
get_captures(moves) ==
    SelectSeq(moves, LAMBDA encoded_ply : PlyDecode(encoded_ply).captured_piece # None)

\* the call quiescence_search(position, ply_index, alpha, beta, time_limit) at its entry
QsCall(position, ply_index, alpha, beta) ==
    [position |-> position, ply_index |-> ply_index, alpha |-> alpha, beta |-> beta,
     alpha_in |-> alpha, phase |-> "entry", capture_list |-> <<>>, i |-> 0,
     value |-> 0, timed_out |-> FALSE, generated |-> FALSE, cutoff |-> "none"]

\* a mutation of CutoffValue: the score that fails high is returned (fail-soft)
CutoffValueSoft(score, beta) == score

\* lines 28-30 and 53-55: the value returned when a score is not below beta
CutoffValue(score, beta) == beta

\* a mutation of CountNode: the node is counted twice
CountNodeTwice(search_info) == [search_info EXCEPT !.node_count = @ + 2]

\* line 22: self.search_info.node_count += 1
CountNode(search_info) == [search_info EXCEPT !.node_count = @ + 1]

\* the number of pieces on the board
PieceCount(position) == Cardinality(GetOccupancies(position))

InitQs ==
    /\ \E position \in QsPositions, ply_index \in QsPlyIndexes, w \in QsWindows :
        /\ input = [kind |-> "quiescence", elapsed |-> "within",
                    calls |-> <<QsCall(position, ply_index, w[1], w[2])>>]
        /\ \E info \in QsSearchInfos(ply_index), time \in {None, "Some"} :
            search = [total_time |-> time, stop |-> FALSE, search_info |-> info]
    /\ fen = <<>>
    /\ parsed = NotParsed
    /\ board = EmptyBoard
    /\ board_history = <<>>
    /\ move_list = <<>>
    /\ played = <<>>
    /\ last = [op |-> "none"]
    /\ pc = "searching"
    /\ channel = ChannelNew

QsTop == input.calls[Len(input.calls)]
QsWithTop(call) == [input.calls EXCEPT ![Len(input.calls)] = call]

\* lines 13-19: the limit is exceeded, stop is set and 0 is returned
QsTimeUp ==
    /\ pc = "searching"
    /\ QsTop.phase = "entry"
    /\ search.total_time # None
    /\ input' = [input EXCEPT !.elapsed = "over",
                    !.calls = QsWithTop([QsTop EXCEPT !.phase = "done", !.value = 0,
                                                      !.timed_out = TRUE])]
    /\ search' = [search EXCEPT !.stop = TRUE]
    /\ last' = [op |-> "time_up", ply_index |-> QsTop.ply_index]
    /\ UNCHANGED <<fen, parsed, board, board_history, move_list, played, pc, channel>>

\* lines 13-43 when the limit is not exceeded: the node is counted, the position is
\* evaluated, and unless the evaluation fails high the captures are generated and
\* sorted; sort panics when it reads pv_table or killer_moves at an index the
\* tables do not have
QsEnter ==
    /\ pc = "searching"
    /\ QsTop.phase = "entry"
    /\ search.total_time # None => input.elapsed = "within"
    /\ \E standing_pat \in EvalValues :
        LET call == QsTop
            counted == CountNode(search.search_info)
            alpha == IF standing_pat > call.alpha THEN standing_pat ELSE call.alpha
        IN  IF standing_pat >= call.beta
            THEN /\ input' = [input EXCEPT !.calls =
                        QsWithTop([call EXCEPT !.phase = "done",
                                      !.value = CutoffValue(standing_pat, call.beta),
                                      !.cutoff = "standing_pat"])]
                 /\ search' = [search EXCEPT !.search_info = counted]
                 /\ last' = [op |-> "enter", ply_index |-> call.ply_index,
                             sorted |-> FALSE, reads_pv |-> FALSE]
                 /\ pc' = pc
            ELSE \E captures \in {get_captures(EncodeAll(generate_moves(call.position)))} :
                 LET reads_pv == Len(captures) >= 2 /\ counted.follow_pv
                     reads_killers ==
                         /\ Len(captures) >= 2
                         /\ \E k \in 1 .. Len(captures) : IsQuiet(PlyDecode(captures[k]))
                 IN  IF (reads_pv \/ reads_killers) /\ call.ply_index >= MAX_PLY
                     THEN /\ input' = input
                          /\ search' = [search EXCEPT !.search_info = counted]
                          /\ last' = [op |-> "enter", ply_index |-> call.ply_index,
                                      sorted |-> TRUE, reads_pv |-> TRUE]
                          /\ pc' = "panicked"
                     ELSE \E sorted \in {MoveListSort(captures, counted, call.ply_index)} :
                          /\ input' = [input EXCEPT !.calls =
                                 QsWithTop([call EXCEPT !.phase = "loop", !.alpha = alpha,
                                               !.capture_list = sorted.moves,
                                               !.generated = TRUE])]
                          /\ search' = [search EXCEPT !.search_info = sorted.search_info]
                          /\ last' = [op |-> "enter", ply_index |-> call.ply_index,
                                      sorted |-> TRUE, reads_pv |-> reads_pv]
                          /\ pc' = pc
    /\ UNCHANGED <<fen, parsed, board, board_history, move_list, played, channel>>

\* lines 46-50: the call for the next capture, on the position after it
QsDescend ==
    /\ pc = "searching"
    /\ QsTop.phase = "loop"
    /\ QsTop.i < Len(QsTop.capture_list)
    /\ LET call == QsTop
           ply == PlyDecode(call.capture_list[call.i + 1])
       IN  /\ input' = [input EXCEPT !.calls =
                  Append(input.calls,
                         QsCall(PositionMakeMove(call.position, ply), call.ply_index + 1,
                                I32Neg(call.beta), I32Neg(call.alpha)))]
           /\ played' = Append(played, ply)
           /\ last' = [op |-> "descend", ply_index |-> call.ply_index]
    /\ UNCHANGED <<fen, parsed, board, board_history, move_list, search, pc, channel>>

\* lines 50-62: the value of the call for a capture is negated; it ends the loop
\* with beta, or raises alpha, and the loop goes on
QsReturn ==
    /\ pc = "searching"
    /\ QsTop.phase = "done"
    /\ Len(input.calls) >= 2
    /\ LET caller == input.calls[Len(input.calls) - 1]
           score == I32Neg(QsTop.value)
           resumed ==
               IF score >= caller.beta
               THEN [caller EXCEPT !.phase = "done",
                                   !.value = CutoffValue(score, caller.beta),
                                   !.cutoff = "capture"]
               ELSE [caller EXCEPT !.i = @ + 1,
                                   !.alpha = IF score > @ THEN score ELSE @]
       IN  /\ input' = [input EXCEPT !.calls =
                  Append(SubSeq(input.calls, 1, Len(input.calls) - 2), resumed)]
           /\ played' = SubSeq(played, 1, Len(played) - 1)
           /\ last' = [op |-> "return", ply_index |-> caller.ply_index,
                       child |-> QsTop, after |-> caller.i + 1 ]
    /\ UNCHANGED <<fen, parsed, board, board_history, move_list, search, pc, channel>>

\* line 67: the loop is over, alpha is returned
QsFinish ==
    /\ pc = "searching"
    /\ QsTop.phase = "loop"
    /\ QsTop.i = Len(QsTop.capture_list)
    /\ input' = [input EXCEPT !.calls =
            QsWithTop([QsTop EXCEPT !.phase = "done", !.value = QsTop.alpha])]
    /\ last' = [op |-> "finish", ply_index |-> QsTop.ply_index]
    /\ UNCHANGED <<fen, parsed, board, board_history, move_list, played, search, pc, channel>>

\* the first call returns to its caller
QsExit ==
    /\ pc = "searching"
    /\ QsTop.phase = "done"
    /\ Len(input.calls) = 1
    /\ pc' = "returned"
    /\ last' = [op |-> "exit", ply_index |-> QsTop.ply_index]
    /\ UNCHANGED <<fen, parsed, board, board_history, move_list, played, search, input, channel>>

NextQs == QsTimeUp \/ QsEnter \/ QsDescend \/ QsReturn \/ QsFinish \/ QsExit

SpecQs == InitQs /\ [][NextQs]_vars

\* the calls of quiescence_search on the stack
QsCalls == {input.calls[k] : k \in 1 .. Len(input.calls)}

\* C22: a call with alpha < beta that does not hit the time limit at its entry
\* returns a value from alpha to beta; when the static evaluation is not below beta
\* it returns beta and has generated no move; when the negated value of the call
\* for a capture is not below beta it returns beta at once.
C22_FailHard ==
    /\ \A call \in QsCalls :
        (call.phase = "done" /\ ~call.timed_out /\ call.alpha_in < call.beta) =>
            /\ call.alpha_in <= call.value
            /\ call.value <= call.beta
            /\ call.cutoff = "standing_pat" =>
                 (call.value = call.beta /\ ~call.generated /\ call.capture_list = <<>>)
            /\ call.cutoff = "capture" => call.value = call.beta
    /\ (last.op = "return" /\ I32Neg(last.child.value) >= QsTop.beta) =>
          /\ QsTop.phase = "done"
          /\ QsTop.value = QsTop.beta
          /\ QsTop.i + 1 = last.after

\* the first call has returned beta because the second capture it tried failed high
C22_Witness ==
    /\ pc = "returned"
    /\ QsTop.cutoff = "capture"
    /\ QsTop.i >= 1
    /\ QsTop.alpha_in < QsTop.value
    /\ ~QsTop.timed_out

\* the nodes counted so far
NodeCount == search.search_info.node_count

\* C23: a call that finds the start time set and the limit exceeded at its entry sets
\* stop and returns 0 without counting a node, evaluating or generating moves; every
\* other call counts exactly one node; and once the limit is exceeded no call counts
\* a node, sorts or changes the search information any more.
C23_TimeCheck ==
    [][/\ last'.op = "time_up" =>
            /\ search.total_time # None
            /\ search'.stop
            /\ search'.search_info = search.search_info
            /\ QsTop'.phase = "done" /\ QsTop'.value = 0
            /\ ~QsTop'.generated /\ QsTop'.capture_list = <<>>
       /\ last'.op = "enter" => NodeCount' = NodeCount + 1
       /\ last'.op \notin {"time_up", "enter"} => NodeCount' = NodeCount
       /\ (search.total_time # None /\ input.elapsed = "over") =>
            /\ last'.op # "enter"
            /\ search'.search_info = search.search_info
            /\ search'.stop]_vars

\* after the limit was exceeded the caller went on to its second capture, and the
\* call for it returned 0 at its entry as well
C23_Witness ==
    /\ last.op = "return"
    /\ last.child.timed_out
    /\ last.after >= 2
    /\ search.stop
    /\ input.elapsed = "over"
    /\ NodeCount >= 2

(***************************************************************************)
(* Termination of quiescence_search.  The calls on the stack are a path in *)
(* the tree of captures, and the search walks this tree depth first: the   *)
(* places of the calls in their code, read from the outermost call to the  *)
(* innermost, grow in the lexicographic order with every step.  The depth  *)
(* and the places are bounded, so no search takes steps for ever.          *)
(***************************************************************************)
\* how far a call has come: the captures it is done with, and its phase
CallRank(call) ==
    3 * call.i + (CASE call.phase = "entry" -> 0
                    [] call.phase = "loop" -> 1
                    [] call.phase = "done" -> 2)

QsRanks(calls) == [k \in 1 .. Len(calls) |-> CallRank(calls[k])]

\* a comes before b in the lexicographic order, a proper prefix before its extensions
LexLess(a, b) ==
    \E k \in 1 .. Len(b) :
        /\ k <= Len(a) + 1
        /\ \A j \in 1 .. k - 1 : a[j] = b[j]
        /\ k <= Len(a) => a[k] < b[k]

\* the call has ended: it has returned, or the thread has panicked in sort
QsEnded == pc \in {"returned", "panicked"}

\* a call that has not ended can take a step
QsCanStep ==
    \/ QsTop.phase \in {"entry", "done"}
    \/ QsTop.phase = "loop" /\ QsTop.i <= Len(QsTop.capture_list)

\* the moves played between the positions of the calls on the stack are captures,
\* and every call but the first is on a position with one piece fewer than its caller's
OnePieceFewer ==
    /\ Len(played) = Len(input.calls) - 1
    /\ \A k \in 1 .. Len(played) :
        /\ played[k].captured_piece # None
        /\ PlyEncode(played[k]) = input.calls[k].capture_list[input.calls[k].i + 1]
        /\ PieceCount(input.calls[k + 1].position) = PieceCount(input.calls[k].position) - 1

\* C27: quiescence_search recurses on captures only, each recursive call is on a
\* position with exactly one piece fewer, the recursion is never deeper than the
\* number of pieces of the first position, and every call ends: a call that has not
\* ended can take a step, and every step brings the walk through the captures forward.
C27_Terminates ==
    /\ [](/\ OnePieceFewer
          /\ Len(played) <= PieceCount(input.calls[1].position)
          /\ \A call \in QsCalls : call.i <= Len(call.capture_list)
          /\ ~QsEnded => QsCanStep)
    /\ [][QsEnded' \/ LexLess(QsRanks(input.calls), QsRanks(input.calls'))]_vars

\* three captures deep, three pieces fewer than at the start
C27_Witness ==
    /\ Len(input.calls) = 4
    /\ PieceCount(QsTop.position) = PieceCount(input.calls[1].position) - 3
    /\ QsTop.phase = "loop"

\* C28: whenever quiescence_search calls MoveList::sort, the ply index it passes is
\* below MAX_PLY, and sort never reads pv_table or killer_moves at an index the
\* tables do not have.
C28_PlyIndexBelowMaxPly ==
    /\ (last.op = "enter" /\ last.sorted) => last.ply_index < MAX_PLY
    /\ pc # "panicked"

(***************************************************************************)
(* Properties of the search thread under SpecTimedFair and SpecChannel.    *)
(***************************************************************************)
\* the info lines of the command with the number id
InfoLinesOf(id) == SelectSeq(channel.messages, LAMBDA m : m.id = id /\ m.kind = "info depth")

\* the search with the number id has ended after the time limit stopped it, with at
\* least one iteration completed
StoppedByTime(id) ==
    /\ played[id].type = "SearchTime"
    /\ id = Len(played)
    /\ pc = "waiting"
    /\ search.stop
    /\ Len(InfoLinesOf(id)) >= 1

\* C21: when the time limit has stopped a search that completed an iteration, its
\* bestmove line names the first move of the principal variation of the last
\* completed iteration, the move of its last info line, whatever the aborted
\* iteration left in the pv table; and a search that has started comes to its end.
C21_BestMoveOfCompletedIteration ==
    /\ [](\A id \in 1 .. Len(played) :
            StoppedByTime(id) =>
                /\ Len(BestMovesOf(id)) = 1
                /\ BestMovesOf(id)[1].uci = InfoLinesOf(id)[Len(InfoLinesOf(id))].uci)
    /\ (pc = "searching") ~> (pc = "waiting")

\* the time limit stopped the search in its second iteration, which left another
\* move at the head of the pv table than the one the first iteration found
C21_Witness ==
    /\ Len(played) >= 1
    /\ StoppedByTime(Len(played))
    /\ Len(BestMovesOf(Len(played))) = 1
    /\ BestMovesOf(Len(played))[1].uci # PlyToUci(search.search_info.pv_table[0][0])

====
